---- MODULE Spec2Model ----
(***************************************************************************)
(* lightlang: AST emitter (builder.go), bytecode file format (bytecode     *)
(* writer/reader) and stack VM (vm.go), modelled as state machines.        *)
(*                                                                         *)
(* Strings are sequences of bytes.  A Go interface{} value is a record     *)
(* tagged by field t: "nil", "float" (float64, the rational n/d in lowest  *)
(* terms), "int" (Go int), "str", "bool", "ref" (a slice or a map: an      *)
(* index into the heap, so that aliases observe mutation).                 *)
(***************************************************************************)
EXTENDS Integers, Sequences, FiniteSets, TLC

\* ------------------------------------------------------------------ opcodes
OpConstant == 0
OpAdd == 1
OpSub == 2
OpMul == 3
OpDiv == 4
OpCmpEq == 5
OpCmpNe == 6
OpCmpLt == 7
OpCmpLte == 8
OpCmpGt == 9
OpCmpGte == 10
OpPop == 11
OpSetGlobal == 12
OpGetGlobal == 13
OpSetLocal == 14
OpGetLocal == 15
OpMakeFunc == 16
OpCall == 17
OpCallIndirect == 18
OpReturn == 19
OpNop == 20
OpJump == 21
OpJumpIfFalse == 22
OpTable == 23
OpArray == 24
OpSetIndex == 25
OpGetIndex == 26
OpNot == 27
OpHalt == 28

\* ------------------------------------------------------------------ values
Nil == [t |-> "nil"]
IntV(n) == [t |-> "int", n |-> n]
Str(s) == [t |-> "str", s |-> s]
Bool(b) == [t |-> "bool", b |-> b]
Ref(k) == [t |-> "ref", ref |-> k]

Abs(x) == IF x < 0 THEN -x ELSE x

RECURSIVE Gcd(_, _)
Gcd(a, b) == IF b = 0 THEN a ELSE Gcd(b, a % b)

\* the float64 n/d, in lowest terms with d > 0
Rat(n, d) ==
    LET g == Gcd(Abs(n), Abs(d))
        s == IF d < 0 THEN -1 ELSE 1
    IN [t |-> "float", n |-> s * (n \div g), d |-> s * (d \div g)]

Float(n) == [t |-> "float", n |-> n, d |-> 1]

\* a float64 whose bit pattern is outside the rationals the model computes
\* with (subnormal, infinite, NaN, or a long mantissa): kept as its 8 bytes
FRaw(bytes) == [t |-> "fraw", raw |-> bytes]

Pow2(k) == 2 ^ k

\* Go's int(f) for a float64 f: truncation toward zero
TruncRat(v) == IF v.n >= 0 THEN v.n \div v.d ELSE -((-v.n) \div v.d)

IsIntegral(v) == v.t = "float" /\ v.d = 1

Instruction(op, arg, line) == [Op |-> op, Arg |-> arg, Line |-> line]
Constant(val, typ) == [Value |-> val, Type |-> typ]

\* ------------------------------------------------------- 32-bit arithmetic
\* A uint32 is its 32 bits, least significant first.
Zero32 == [i \in 1..32 |-> 0]

NatToU32(n) == [i \in 1..32 |-> IF i = 32 THEN 0 ELSE (n \div Pow2(i - 1)) % 2]

Not32(u) == [i \in 1..32 |-> 1 - u[i]]

Or32(u, w) == [i \in 1..32 |-> IF u[i] = 1 \/ w[i] = 1 THEN 1 ELSE 0]

\* u << k and u >> k on 32 bits (Go: a shift count >= 32 gives 0)
Shl32(u, k) == [i \in 1..32 |-> IF i - k >= 1 THEN u[i - k] ELSE 0]
Shr32(u, k) == [i \in 1..32 |-> IF i + k <= 32 THEN u[i + k] ELSE 0]

RECURSIVE BitsToNat(_)
BitsToNat(bits) ==
    IF Len(bits) = 0 THEN 0 ELSE bits[1] + 2 * BitsToNat(Tail(bits))

\* the ends of Go's int32
MaxInt32 == 2147483647
MinInt32 == -MaxInt32 - 1

\* uint32(v) for an int32 v: two's complement
Int32ToU32(v) == IF v >= 0 THEN NatToU32(v) ELSE Not32(NatToU32(-(v + 1)))

\* int32(u) for a uint32 u
U32ToInt32(u) ==
    IF u[32] = 0 THEN BitsToNat(SubSeq(u, 1, 31))
    ELSE -BitsToNat(SubSeq(Not32(u), 1, 31)) - 1

\* float64(u) for a uint32 u
U32ToFloat(u) == Float(BitsToNat(u))

\* uint8(u): the low byte
LowByte(u) == BitsToNat(SubSeq(u, 1, 8))

ByteToBits(b) == [i \in 1..8 |-> (b \div Pow2(i - 1)) % 2]

\* ------------------------------------------------------------ float64 bytes
\* floor(log2(q)) for an integer q >= 1
RECURSIVE FloorLog2(_)
FloorLog2(q) == IF q <= 1 THEN 0 ELSE 1 + FloorLog2(q \div 2)

\* least k with m * 2^k >= d
RECURSIVE ShiftUp(_, _)
ShiftUp(m, d) == IF m >= d THEN 0 ELSE 1 + ShiftUp(2 * m, d)

\* the first k bits of the binary expansion of r/den (0 <= r < den)
RECURSIVE FracBits(_, _, _)
FracBits(r, den, k) ==
    IF k = 0 THEN <<>>
    ELSE IF 2 * r >= den THEN <<1>> \o FracBits(2 * r - den, den, k - 1)
         ELSE <<0>> \o FracBits(2 * r, den, k - 1)

Reverse(s) == [i \in 1..Len(s) |-> s[Len(s) + 1 - i]]

\* the IEEE-754 binary64 bits of n/d, least significant first
Float64Bits(v) ==
    IF v.n = 0 THEN [i \in 1..64 |-> 0]
    ELSE LET m == Abs(v.n)
             d == v.d
             up == ShiftUp(m, d)
             E == IF m >= d THEN FloorLog2(m \div d) ELSE -up
             num == IF E >= 0 THEN m - d * Pow2(E) ELSE m * Pow2(up) - d
             den == IF E >= 0 THEN d * Pow2(E) ELSE d
             mant == FracBits(num, den, 52)
             ex == NatToU32(E + 1023)
         IN Reverse(mant) \o SubSeq(ex, 1, 11) \o <<IF v.n < 0 THEN 1 ELSE 0>>

\* binary.Write(w, binary.LittleEndian, f) for a float64 f
WriteFloat64(v) ==
    IF v.t = "fraw" THEN v.raw
    ELSE LET bits == Float64Bits(v)
         IN [k \in 1..8 |-> BitsToNat(SubSeq(bits, 8 * k - 7, 8 * k))]

\* index of the last 1 in a bit sequence, 0 if there is none
RECURSIVE LastOne(_)
LastOne(bits) ==
    IF Len(bits) = 0 THEN 0
    ELSE IF bits[Len(bits)] = 1 THEN Len(bits)
         ELSE LastOne(SubSeq(bits, 1, Len(bits) - 1))

\* binary.Read(r, binary.LittleEndian, &f) for a float64 f, from 8 bytes
ReadFloat64(bytes) ==
    LET Value(sign, ex, mant, L) ==
            IF ex = 0 /\ L = 0 THEN Float(0)
            ELSE IF ex = 0 \/ ex = 2047 \/ L > 28 \/ ex - 1023 > 30
                    \/ ex - 1023 < -28 \/ L - (ex - 1023) > 29
                 THEN FRaw(bytes)
            ELSE LET E == ex - 1023
                     M == Pow2(L) + BitsToNat(Reverse(SubSeq(mant, 1, L)))
                     s == IF sign = 1 THEN -1 ELSE 1
                 IN IF E >= L THEN Float(s * M * Pow2(E - L))
                    ELSE Rat(s * M, Pow2(L - E))
        Fields(bits, mant) ==
            Value(bits[64], BitsToNat(SubSeq(bits, 53, 63)), mant, LastOne(mant))
        Bits(bits) == Fields(bits, Reverse(SubSeq(bits, 1, 52)))
    IN Bits(ByteToBits(bytes[1]) \o ByteToBits(bytes[2]) \o ByteToBits(bytes[3])
            \o ByteToBits(bytes[4]) \o ByteToBits(bytes[5]) \o ByteToBits(bytes[6])
            \o ByteToBits(bytes[7]) \o ByteToBits(bytes[8]))

\* --------------------------------------------------------- bytecode writer
MagicHeader == <<76, 76, 66, 67>>
VersionMajor == 2
VersionMinor == 3
VersionCombined == VersionMajor * 16 + (VersionMinor % 16)

ConstTypeNumber == 0
ConstTypeString == 1
ConstTypeFuncPtr == 2
ConstTypeBool == 3
ConstTypeNil == 4
ConstFlagSmallInt == 128
ConstFlagShortStr == 64
ArgTypeConst == 0
ArgTypeInt == 1
ArgTypeFloat == 2
ArgTypeString == 3

\* uint32(x) for a Go int or an integer-valued float64 in int32 range
ToU32(v) ==
    IF v.t = "int" THEN Int32ToU32(v.n)
    ELSE IF v.t = "float" THEN Int32ToU32(TruncRat(v))
    ELSE Zero32

RECURSIVE writeVarUint(_)
writeVarUint(val) ==
    IF \E i \in 8..32 : val[i] = 1
    THEN <<(LowByte(val) % 128) + 128>> \o writeVarUint(Shr32(val, 7))
    ELSE <<LowByte(val)>>

\* val is a uint16
writeVarUint16(val) ==
    IF val < 128 THEN <<val>>
    ELSE <<(val % 128) + 128, (val \div 128) % 256>>

\* a zig-zag writer that forgets the complement of a negative value (C23 is
\* sensitive to it)
writeVarIntNoSign(val) == writeVarUint(Shl32(Int32ToU32(val), 1))

\* val is an int32
writeVarInt(val) ==
    LET uval == Shl32(Int32ToU32(val), 1)
    IN writeVarUint(IF val < 0 THEN Not32(uval) ELSE uval)

\* binary.Write(w, binary.LittleEndian, x) for an int32 x: four bytes
WriteInt32LE(val) ==
    LET u == Int32ToU32(val)
    IN [k \in 1..4 |-> BitsToNat(SubSeq(u, 8 * k - 7, 8 * k))]

WriteConstant(c) ==
    CASE c.Type = "number" ->
           IF c.Value.t = "int" /\ c.Value.n >= -127 /\ c.Value.n <= 127
           THEN <<ConstTypeNumber + ConstFlagSmallInt, (c.Value.n + 256) % 256>>
           ELSE LET fval == IF c.Value.t \in {"float", "fraw"} THEN c.Value
                            ELSE IF c.Value.t = "int" THEN Float(c.Value.n)
                            ELSE Float(0)
                IN <<ConstTypeNumber>> \o WriteFloat64(fval)
      [] c.Type = "string" ->
           LET str == c.Value.s
           IN IF Len(str) <= 255
              THEN <<ConstTypeString + ConstFlagShortStr, Len(str)>> \o str
              ELSE <<ConstTypeString>> \o writeVarUint(NatToU32(Len(str))) \o str
      [] c.Type = "funcptr" -> <<ConstTypeFuncPtr>> \o writeVarUint(ToU32(c.Value))
      [] c.Type = "bool" -> <<ConstTypeBool, IF c.Value = Bool(TRUE) THEN 1 ELSE 0>>
      [] c.Type = "nil" -> <<ConstTypeNil>>
      [] OTHER -> <<>>

\* arg == float64(int32(arg)), for a float64 arg
FitsInt32(arg) == arg.t = "float" /\ arg.d = 1

WriteArg(arg) ==
    CASE arg.t \in {"float", "fraw"} ->
           IF FitsInt32(arg)
           THEN <<ArgTypeInt>> \o WriteInt32LE(arg.n)
           ELSE <<ArgTypeFloat>> \o WriteFloat64(arg)
      [] arg.t = "int" -> <<ArgTypeInt>> \o writeVarInt(arg.n)
      [] arg.t = "str" ->
           <<ArgTypeString>> \o writeVarUint(NatToU32(Len(arg.s))) \o arg.s
      [] OTHER -> <<>>

WriteInstruction(inst) ==
    LET hasArg == inst.Arg # Nil
        opcode == IF hasArg /\ inst.Op < 128 THEN inst.Op + 128 ELSE inst.Op
    IN <<opcode>> \o writeVarUint16(inst.Line % 65536)
       \o (IF hasArg THEN WriteArg(inst.Arg) ELSE <<>>)

RECURSIVE WriteAll(_, _)
WriteAll(items, isConst) ==
    IF Len(items) = 0 THEN <<>>
    ELSE (IF isConst THEN WriteConstant(Head(items)) ELSE WriteInstruction(Head(items)))
         \o WriteAll(Tail(items), isConst)

WriteBytecode(instructions, constants) ==
    MagicHeader \o <<VersionCombined>>
    \o writeVarUint(NatToU32(Len(constants)))
    \o writeVarUint(NatToU32(Len(instructions)))
    \o WriteAll(constants, TRUE)
    \o WriteAll(instructions, FALSE)

\* --------------------------------------------------------- bytecode reader
\* A read returns [ok, val, pos]: pos is the offset of the next unread byte.
ReadUint8(data, pos) ==
    IF pos + 1 <= Len(data) THEN [ok |-> TRUE, val |-> data[pos + 1], pos |-> pos + 1]
    ELSE [ok |-> FALSE, val |-> 0, pos |-> pos]

\* io.ReadFull(r, buf) for len(buf) = n
ReadFull(data, pos, n) ==
    IF pos + n <= Len(data)
    THEN [ok |-> TRUE, val |-> SubSeq(data, pos + 1, pos + n), pos |-> pos + n]
    ELSE [ok |-> FALSE, val |-> <<>>, pos |-> Len(data)]

RECURSIVE readVarUintLoop(_, _, _, _)
readVarUintLoop(data, pos, result, shift) ==
    LET b == ReadUint8(data, pos)
    IN IF ~b.ok THEN [ok |-> FALSE, val |-> Zero32, pos |-> b.pos]
       ELSE LET r == Or32(result, Shl32(NatToU32(b.val % 128), shift))
            IN IF b.val < 128 THEN [ok |-> TRUE, val |-> r, pos |-> b.pos]
               ELSE readVarUintLoop(data, b.pos, r, shift + 7)

readVarUint(data, pos) == readVarUintLoop(data, pos, Zero32, 0)

readVarUint16(data, pos) ==
    LET first == ReadUint8(data, pos)
    IN IF ~first.ok THEN first
       ELSE IF first.val < 128 THEN first
       ELSE LET second == ReadUint8(data, first.pos)
            IN IF ~second.ok THEN second
               ELSE [ok |-> TRUE, pos |-> second.pos,
                     val |-> ((first.val % 128) + second.val * 128) % 65536]

Fail(pos) == [ok |-> FALSE, val |-> Nil, pos |-> pos]

ReadConstant(data, pos) ==
    LET info == ReadUint8(data, pos)
        constType == info.val % 8
        flags == info.val - constType
    IN IF ~info.ok THEN Fail(info.pos)
       ELSE CASE constType = ConstTypeNumber ->
                   IF (flags \div ConstFlagSmallInt) % 2 = 1
                   THEN LET v == ReadUint8(data, info.pos)
                        IN IF ~v.ok THEN Fail(v.pos)
                           ELSE [ok |-> TRUE, pos |-> v.pos,
                                 val |-> Constant(IntV(IF v.val >= 128 THEN v.val - 256
                                                       ELSE v.val), "number")]
                   ELSE LET v == ReadFull(data, info.pos, 8)
                        IN IF ~v.ok THEN Fail(v.pos)
                           ELSE [ok |-> TRUE, pos |-> v.pos,
                                 val |-> Constant(ReadFloat64(v.val), "number")]
              [] constType = ConstTypeString ->
                   LET n == IF (flags \div ConstFlagShortStr) % 2 = 1
                            THEN LET v == ReadUint8(data, info.pos)
                                 IN [ok |-> v.ok, val |-> NatToU32(v.val), pos |-> v.pos]
                            ELSE readVarUint(data, info.pos)
                   IN IF ~n.ok THEN Fail(n.pos)
                      ELSE LET v == ReadFull(data, n.pos, BitsToNat(n.val))
                           IN IF ~v.ok THEN Fail(v.pos)
                              ELSE [ok |-> TRUE, pos |-> v.pos,
                                    val |-> Constant(Str(v.val), "string")]
              [] constType = ConstTypeFuncPtr ->
                   LET v == readVarUint(data, info.pos)
                   IN IF ~v.ok THEN Fail(v.pos)
                      ELSE [ok |-> TRUE, pos |-> v.pos,
                            val |-> Constant(U32ToFloat(v.val), "funcptr")]
              [] constType = ConstTypeBool ->
                   LET v == ReadUint8(data, info.pos)
                   IN IF ~v.ok THEN Fail(v.pos)
                      ELSE [ok |-> TRUE, pos |-> v.pos,
                            val |-> Constant(Bool(v.val = 1), "bool")]
              [] constType = ConstTypeNil ->
                   [ok |-> TRUE, pos |-> info.pos, val |-> Constant(Nil, "nil")]
              [] OTHER -> [ok |-> TRUE, pos |-> info.pos, val |-> Constant(Nil, "")]

ReadArg(data, pos) ==
    LET argType == ReadUint8(data, pos)
        kind == argType.val % 4
    IN IF ~argType.ok THEN Fail(argType.pos)
       ELSE CASE kind = ArgTypeConst ->
                   LET idx == readVarUint(data, argType.pos)
                   IN IF ~idx.ok THEN Fail(idx.pos)
                      ELSE [ok |-> TRUE, pos |-> idx.pos, val |-> U32ToFloat(idx.val)]
              [] kind = ArgTypeInt ->
                   LET uval == readVarUint(data, argType.pos)
                       val == U32ToInt32(Shr32(uval.val, 1))
                   IN IF ~uval.ok THEN Fail(uval.pos)
                      ELSE [ok |-> TRUE, pos |-> uval.pos,
                            val |-> Float(IF uval.val[1] = 1 THEN -val - 1 ELSE val)]
              [] kind = ArgTypeFloat ->
                   LET v == ReadFull(data, argType.pos, 8)
                   IN IF ~v.ok THEN Fail(v.pos)
                      ELSE [ok |-> TRUE, pos |-> v.pos, val |-> ReadFloat64(v.val)]
              [] OTHER ->
                   LET n == readVarUint(data, argType.pos)
                   IN IF ~n.ok THEN Fail(n.pos)
                      ELSE LET v == ReadFull(data, n.pos, BitsToNat(n.val))
                           IN IF ~v.ok THEN Fail(v.pos)
                              ELSE [ok |-> TRUE, pos |-> v.pos, val |-> Str(v.val)]

ReadInstruction(data, pos) ==
    LET Decoded(opcode, line, arg) ==
            IF ~opcode.ok THEN Fail(opcode.pos)
            ELSE IF ~line.ok THEN Fail(line.pos)
            ELSE IF ~arg.ok THEN Fail(arg.pos)
            ELSE [ok |-> TRUE, pos |-> arg.pos,
                  val |-> Instruction(opcode.val % 128, arg.val, line.val)]
        WithLine(opcode, line) ==
            Decoded(opcode, line,
                    IF opcode.val >= 128 THEN ReadArg(data, line.pos)
                    ELSE [ok |-> TRUE, pos |-> line.pos, val |-> Nil])
        WithOpcode(opcode) == WithLine(opcode, readVarUint16(data, opcode.pos))
    IN WithOpcode(ReadUint8(data, pos))

\* the loop "for i := range items" of the reader, count items from pos
RECURSIVE ReadAll(_, _, _, _, _)
ReadAll(data, pos, count, isConst, acc) ==
    LET Rest(r) ==
            IF ~r.ok THEN [ok |-> FALSE, val |-> <<>>, pos |-> r.pos]
            ELSE ReadAll(data, r.pos, count - 1, isConst, Append(acc, r.val))
    IN IF count = 0 THEN [ok |-> TRUE, val |-> acc, pos |-> pos]
       ELSE Rest(IF isConst THEN ReadConstant(data, pos)
                 ELSE ReadInstruction(data, pos))

LoadFail(kind, pos) ==
    [err |-> kind, Instructions |-> <<>>, Constants |-> <<>>, pos |-> pos]

\* a faulty header check that wants the whole version byte, minor nibble
\* included, to be the writer's (C20 is sensitive to it)
ReadHeaderSameMinor(data) ==
    LET magic == ReadFull(data, 0, 4)
        version == ReadUint8(data, magic.pos)
        constantCount == readVarUint(data, version.pos)
        instructionCount == readVarUint(data, constantCount.pos)
    IN IF ~magic.ok THEN LoadFail("eof", magic.pos)
       ELSE IF magic.val # MagicHeader THEN LoadFail("bad magic", magic.pos)
       ELSE IF ~version.ok THEN LoadFail("eof", version.pos)
       ELSE IF version.val # VersionCombined
            THEN LoadFail("incompatible version", version.pos)
       ELSE IF ~constantCount.ok THEN LoadFail("eof", constantCount.pos)
       ELSE IF ~instructionCount.ok THEN LoadFail("eof", instructionCount.pos)
       ELSE [err |-> "", pos |-> instructionCount.pos,
             Constants |-> BitsToNat(constantCount.val),
             Instructions |-> BitsToNat(instructionCount.val)]

\* the header of a file: magic, version byte and the two counts
ReadHeader(data) ==
    LET magic == ReadFull(data, 0, 4)
        version == ReadUint8(data, magic.pos)
        major == version.val \div 16
        constantCount == readVarUint(data, version.pos)
        instructionCount == readVarUint(data, constantCount.pos)
    IN IF ~magic.ok THEN LoadFail("eof", magic.pos)
       ELSE IF magic.val # MagicHeader THEN LoadFail("bad magic", magic.pos)
       ELSE IF ~version.ok THEN LoadFail("eof", version.pos)
       ELSE IF major # VersionMajor THEN LoadFail("incompatible version", version.pos)
       ELSE IF ~constantCount.ok THEN LoadFail("eof", constantCount.pos)
       ELSE IF ~instructionCount.ok THEN LoadFail("eof", instructionCount.pos)
       ELSE [err |-> "", pos |-> instructionCount.pos,
             Constants |-> BitsToNat(constantCount.val),
             Instructions |-> BitsToNat(instructionCount.val)]

ReadBytecode(data) ==
    LET Arrays(constants, instructions) ==
            IF ~constants.ok THEN LoadFail("eof", constants.pos)
            ELSE IF ~instructions.ok THEN LoadFail("eof", instructions.pos)
            ELSE [err |-> "", Instructions |-> instructions.val,
                  Constants |-> constants.val, pos |-> instructions.pos]
        WithConstants(header, constants) ==
            Arrays(constants,
                   IF constants.ok
                   THEN ReadAll(data, constants.pos, header.Instructions, FALSE, <<>>)
                   ELSE constants)
        WithHeader(header) ==
            IF header.err # "" THEN header
            ELSE WithConstants(header,
                               ReadAll(data, header.pos, header.Constants, TRUE, <<>>))
    IN WithHeader(ReadHeader(data))

\* -------------------------------------------------------------- AST nodes
NoNode == [k |-> "none"]
LiteralNode(val, typ) == [k |-> "Literal", Value |-> val, Type |-> typ]
VariableNode(name) == [k |-> "Variable", Name |-> name]
UnaryOpNode(op, right) == [k |-> "UnaryOp", Op |-> op, Right |-> right]
BinaryOpNode(left, op, right) == [k |-> "BinaryOp", Left |-> left, Op |-> op, Right |-> right]
AssignmentNode(name, expr, isLocal) ==
    [k |-> "Assignment", Name |-> name, Expr |-> expr, IsLocal |-> isLocal]
IndexAssignNode(table, index, value) ==
    [k |-> "IndexAssign", Table |-> table, Index |-> index, Value |-> value]
ExprStmtNode(expr) == [k |-> "ExprStmt", Expr |-> expr]
CallNode(target, args) ==
    [k |-> "Call", Target |-> target, Args |-> args, CallType |-> "direct",
     IndirectTarget |-> NoNode]
IndirectCallNode(callee, args) ==
    [k |-> "Call", Target |-> <<>>, Args |-> args, CallType |-> "indirect",
     IndirectTarget |-> callee]
ArrayLiteralNode(values) ==
    [k |-> "TableLiteral", Keys |-> <<>>, Values |-> values, IsArray |-> TRUE]
TableLiteralNode(keys, values) ==
    [k |-> "TableLiteral", Keys |-> keys, Values |-> values, IsArray |-> FALSE]
IndexAccessNode(table, index) == [k |-> "IndexAccess", Table |-> table, Index |-> index]
WhileLoopNode(cond, body) == [k |-> "WhileLoop", Condition |-> cond, Body |-> body]
IfNode(conds, bodies, elseBody) ==
    [k |-> "If", Conditions |-> conds, Bodies |-> bodies, ElseBody |-> elseBody]
FuncDefNode(name, params, body) ==
    [k |-> "FuncDef", Name |-> name, Params |-> params, Body |-> body]
AnonymousFuncNode(params, body) == [k |-> "AnonymousFunc", Params |-> params, Body |-> body]
ReturnNode(value) == [k |-> "Return", Value |-> value]
BreakNode == [k |-> "Break"]
ForCNode(init, cond, update, body) ==
    [k |-> "ForLoop", Type |-> "cstyle", Init |-> init, Cond |-> cond, Update |-> update,
     Body |-> body, LoopVar |-> <<>>, Collection |-> NoNode]
ForInNode(loopVar, collection, body) ==
    [k |-> "ForLoop", Type |-> "in", Init |-> NoNode, Cond |-> NoNode, Update |-> NoNode,
     Body |-> body, LoopVar |-> loopVar, Collection |-> collection]

\* ----------------------------------------------------------- symbol table
\* b.SymbolTable is the chain of scopes from the root (first) to the current
\* scope (last); Parent of a scope is the one before it.
NewSymbolTable(isFunc) ==
    [Locals |-> <<>>, Globals |-> {}, IsFunc |-> isFunc, NextLocal |-> 0]

\* Locals is a sequence of <<name, index>> pairs, the latest binding first
Lookup(locals, name) ==
    LET hits == {i \in 1..Len(locals) : locals[i][1] = name}
    IN IF hits = {} THEN -1
       ELSE locals[CHOOSE i \in hits : \A j \in hits : i <= j][2]

\* a faulty Define that hands out the index after the next free one (C32 is
\* sensitive to it)
DefineSkipsSlot(s, name, isLocal) ==
    IF isLocal \/ s.IsFunc
    THEN [scope |-> [s EXCEPT !.Locals = <<<<name, s.NextLocal + 1>>>> \o s.Locals,
                              !.NextLocal = s.NextLocal + 2],
          idx |-> s.NextLocal + 1]
    ELSE [scope |-> [s EXCEPT !.Globals = s.Globals \cup {name}], idx |-> -1]

\* s.Define(name, isLocal): the scope afterwards, and the index returned
Define(s, name, isLocal) ==
    IF isLocal \/ s.IsFunc
    THEN [scope |-> [s EXCEPT !.Locals = <<<<name, s.NextLocal>>>> \o s.Locals,
                              !.NextLocal = s.NextLocal + 1],
          idx |-> s.NextLocal]
    ELSE [scope |-> [s EXCEPT !.Globals = s.Globals \cup {name}], idx |-> -1]

\* the current scope of a chain replaced by Define's result
DefineIn(chain, name, isLocal) ==
    LET r == Define(chain[Len(chain)], name, isLocal)
    IN [chain |-> [chain EXCEPT ![Len(chain)] = r.scope], idx |-> r.idx]

\* s.Resolve(name) from the current scope of the chain: the index, or -1
\* when no scope of the chain binds the name (false, -1)
RECURSIVE Resolve(_, _)
Resolve(chain, name) ==
    IF Len(chain) = 0 THEN -1
    ELSE LET idx == Lookup(chain[Len(chain)].Locals, name)
         IN IF idx >= 0 THEN idx
            ELSE Resolve(SubSeq(chain, 1, Len(chain) - 1), name)

\* ---------------------------------------------------------------- builder
NewBuilder ==
    [Instructions |-> <<>>, Constants |-> <<>>, SymbolTable |-> <<NewSymbolTable(FALSE)>>,
     LoopStack |-> <<>>]

\* b.Emit(op, arg)
Emit(b, op, arg) ==
    [b EXCEPT !.Instructions = Append(b.Instructions, Instruction(op, arg, 0))]

\* b.AddConstant(val, typ); the index returned is Len(b.Constants) before it
AddConstant(b, val, typ) ==
    [b EXCEPT !.Constants = Append(b.Constants, Constant(val, typ))]

\* b.Emit(OpConstant, float64(b.AddConstant(val, typ)))
EmitConstant(b, val, typ) ==
    Emit(AddConstant(b, val, typ), OpConstant, Float(Len(b.Constants)))

\* a faulty patch that leaves the placeholder argument in place (C26 and C27
\* are sensitive to it)
UpdateInstructionLost(b, idx, arg) == b

\* b.UpdateInstruction(idx, arg); idx counts from 0
UpdateInstruction(b, idx, arg) ==
    IF idx >= 0 /\ idx < Len(b.Instructions)
    THEN [b EXCEPT !.Instructions[idx + 1].Arg = arg]
    ELSE b

PushLoop(b) == [b EXCEPT !.LoopStack = Append(b.LoopStack, Len(b.Instructions))]
PopLoop(b) == [b EXCEPT !.LoopStack = SubSeq(b.LoopStack, 1, Len(b.LoopStack) - 1)]

BinaryOpcode(op) ==
    CASE op = "+" -> OpAdd
      [] op = "-" -> OpSub
      [] op = "*" -> OpMul
      [] op = "/" -> OpDiv
      [] op = "==" -> OpCmpEq
      [] op = "!=" -> OpCmpNe
      [] op = "<" -> OpCmpLt
      [] op = "<=" -> OpCmpLte
      [] op = ">" -> OpCmpGt
      [] op = ">=" -> OpCmpGte
      [] op = "and" -> OpMul
      [] op = "or" -> OpAdd
      [] OTHER -> -1

\* the store emitted for a name resolved up the chain
EmitStore(b, name) ==
    LET idx == Resolve(b.SymbolTable, name)
    IN IF idx >= 0 THEN Emit(b, OpSetLocal, Float(idx))
       ELSE Emit(b, OpSetGlobal, Str(name))

\* _counter appended to the loop variable's name
CounterName(loopVar) == loopVar \o <<95, 99, 111, 117, 110, 116, 101, 114>>

S_len == <<108, 101, 110>>
S_print == <<112, 114, 105, 110, 116>>

RECURSIVE EmitNode(_, _)
RECURSIVE EmitList(_, _)
RECURSIVE EmitIfArms(_, _, _, _)

\* for _, stmt := range nodes { stmt.Emit(b) }
EmitList(nodes, b) ==
    IF Len(nodes) = 0 THEN b ELSE EmitList(Tail(nodes), EmitNode(Head(nodes), b))

\* ForLoopNode.emitUpdateOrInit
emitUpdateOrInit(b, node) ==
    IF node.k = "Assignment"
    THEN Emit(EmitStore(EmitNode(node.Expr, b), node.Name), OpPop, Nil)
    ELSE Emit(EmitNode(node, b), OpPop, Nil)

emitCstyle(n, b) ==
    LET b1 == IF n.Init # NoNode THEN emitUpdateOrInit(b, n.Init) ELSE b
        startIdx == Len(b1.Instructions)
        b2 == PushLoop(b1)
    IN IF n.Cond # NoNode
       THEN LET b3 == EmitNode(n.Cond, b2)
                jumpFalseIdx == Len(b3.Instructions)
                b4 == EmitList(n.Body, Emit(b3, OpJumpIfFalse, IntV(0)))
                b5 == IF n.Update # NoNode THEN emitUpdateOrInit(b4, n.Update) ELSE b4
                b6 == Emit(b5, OpJump, IntV(startIdx))
            IN PopLoop(UpdateInstruction(b6, jumpFalseIdx, IntV(Len(b6.Instructions))))
       ELSE LET b4 == EmitList(n.Body, b2)
                b5 == IF n.Update # NoNode THEN emitUpdateOrInit(b4, n.Update) ELSE b4
            IN PopLoop(Emit(b5, OpJump, IntV(startIdx)))

\* n.Collection.Emit(b); Constant 1; Call len
EmitLenOfCollection(n, b) ==
    Emit(EmitConstant(EmitNode(n.Collection, b), IntV(1), "number"), OpCall, Str(S_len))

emitInLoop(n, b) ==
    LET b1 == EmitLenOfCollection(n, b)
        d1 == DefineIn(b1.SymbolTable, CounterName(n.LoopVar), TRUE)
        counterIdx == d1.idx
        b2 == Emit(EmitConstant([b1 EXCEPT !.SymbolTable = d1.chain], IntV(0), "number"),
                   OpSetLocal, Float(counterIdx))
        startIdx == Len(b2.Instructions)
        b3 == Emit(EmitLenOfCollection(n, Emit(PushLoop(b2), OpGetLocal, Float(counterIdx))),
                   OpCmpLt, Nil)
        jumpFalseIdx == Len(b3.Instructions)
        b4 == Emit(Emit(EmitNode(n.Collection, Emit(b3, OpJumpIfFalse, IntV(0))),
                        OpGetLocal, Float(counterIdx)), OpGetIndex, Nil)
        d2 == DefineIn(b4.SymbolTable, n.LoopVar, TRUE)
        b5 == EmitList(n.Body, Emit([b4 EXCEPT !.SymbolTable = d2.chain],
                                    OpSetLocal, Float(d2.idx)))
        b6 == Emit(Emit(EmitConstant(Emit(b5, OpGetLocal, Float(counterIdx)),
                                     IntV(1), "number"), OpAdd, Nil),
                   OpSetLocal, Float(counterIdx))
        b7 == Emit(b6, OpJump, IntV(startIdx))
    IN PopLoop(UpdateInstruction(b7, jumpFalseIdx, IntV(Len(b7.Instructions))))

\* the loop of IfNode.Emit from arm i on; endJumps collects the end jumps
EmitIfArms(n, i, b, endJumps) ==
    IF i > Len(n.Conditions)
    THEN LET b1 == IF Len(n.ElseBody) > 0 THEN EmitList(n.ElseBody, b) ELSE b
             finalIdx == Len(b1.Instructions)
             patch[j \in 0..Len(endJumps)] ==
                 IF j = 0 THEN b1
                 ELSE UpdateInstruction(patch[j - 1], endJumps[j], IntV(finalIdx))
         IN patch[Len(endJumps)]
    ELSE LET b1 == EmitNode(n.Conditions[i], b)
             jumpIdx == Len(b1.Instructions)
             b2 == EmitList(n.Bodies[i], Emit(b1, OpJumpIfFalse, IntV(0)))
             more == i < Len(n.Conditions) \/ Len(n.ElseBody) > 0
             b3 == IF more THEN Emit(b2, OpJump, IntV(0)) ELSE b2
             ends == IF more THEN Append(endJumps, Len(b2.Instructions)) ELSE endJumps
         IN EmitIfArms(n, i + 1,
                       UpdateInstruction(b3, jumpIdx, IntV(Len(b3.Instructions))), ends)

\* for _, param := range params { b.SymbolTable.Define(param, true) }
RECURSIVE DefineParams(_, _)
DefineParams(scope, params) ==
    IF Len(params) = 0 THEN scope
    ELSE DefineParams(Define(scope, Head(params), TRUE).scope, Tail(params))

\* the part FuncDefNode.Emit and AnonymousFuncNode.Emit share: the guard
\* jump, the body in a fresh function scope, the implicit return, MakeFunc
EmitFuncBody(n, b) ==
    LET b1 == Emit(b, OpJump, IntV(0))
        funcJumpIdx == Len(b1.Instructions) - 1
        prevSym == b1.SymbolTable
        b2 == [b1 EXCEPT !.SymbolTable =
                   Append(prevSym, DefineParams(NewSymbolTable(TRUE), n.Params))]
        startIp == Len(b2.Instructions)
        b3 == EmitList(n.Body, b2)
        b4 == IF Len(b3.Instructions) = 0
                 \/ b3.Instructions[Len(b3.Instructions)].Op # OpReturn
              THEN Emit(EmitConstant(b3, Nil, "nil"), OpReturn, Nil)
              ELSE b3
        b5 == UpdateInstruction([b4 EXCEPT !.SymbolTable = prevSym], funcJumpIdx,
                                IntV(Len(b4.Instructions)))
    IN Emit(AddConstant(b5, Float(startIp), "funcptr"), OpMakeFunc, Float(Len(b5.Constants)))

EmitAssignment(n, b) ==
    LET b1 == EmitNode(n.Expr, b)
    IN IF n.IsLocal
       THEN LET d == DefineIn(b1.SymbolTable, n.Name, TRUE)
                b2 == [b1 EXCEPT !.SymbolTable = d.chain]
            IN IF d.idx >= 0 THEN Emit(b2, OpSetLocal, Float(d.idx))
               ELSE Emit(b2, OpSetGlobal, Str(n.Name))
       ELSE EmitStore(b1, n.Name)

EmitCall(n, b) ==
    LET b1 == EmitList(n.Args, b)
    IN IF n.CallType = "direct"
       THEN Emit(EmitConstant(b1, Float(Len(n.Args)), "number"), OpCall, Str(n.Target))
       ELSE Emit(EmitConstant(EmitNode(n.IndirectTarget, b1), Float(Len(n.Args)), "number"),
                 OpCallIndirect, Nil)

\* the loop of TableLiteralNode.Emit over the keys, from key i on
RECURSIVE EmitTablePairs(_, _, _)
EmitTablePairs(n, i, b) ==
    IF i > Len(n.Keys) THEN b
    ELSE EmitTablePairs(n, i + 1,
             Emit(EmitNode(n.Values[i], EmitConstant(b, Str(n.Keys[i]), "string")),
                  OpSetIndex, Nil))

EmitWhile(n, b) ==
    LET startIdx == Len(b.Instructions)
        b1 == EmitNode(n.Condition, PushLoop(b))
        jumpFalseIdx == Len(b1.Instructions)
        b2 == Emit(EmitList(n.Body, Emit(b1, OpJumpIfFalse, IntV(0))), OpJump, IntV(startIdx))
    IN PopLoop(UpdateInstruction(b2, jumpFalseIdx, IntV(Len(b2.Instructions))))

\* node.Emit(b)
EmitNode(n, b) ==
    CASE n.k = "Literal" -> EmitConstant(b, n.Value, n.Type)
      [] n.k = "Variable" ->
           LET idx == Resolve(b.SymbolTable, n.Name)
           IN IF idx >= 0 THEN Emit(b, OpGetLocal, Float(idx))
              ELSE Emit(b, OpGetGlobal, Str(n.Name))
      [] n.k = "UnaryOp" ->
           LET b1 == EmitNode(n.Right, b)
           IN IF n.Op = "not" THEN Emit(b1, OpNot, Nil) ELSE b1
      [] n.k = "BinaryOp" ->
           LET b1 == EmitNode(n.Right, EmitNode(n.Left, b))
           IN IF BinaryOpcode(n.Op) >= 0 THEN Emit(b1, BinaryOpcode(n.Op), Nil) ELSE b1
      [] n.k = "ForLoop" -> IF n.Type = "in" THEN emitInLoop(n, b) ELSE emitCstyle(n, b)
      [] n.k = "Assignment" -> EmitAssignment(n, b)
      [] n.k = "IndexAssign" ->
           Emit(EmitNode(n.Value, EmitNode(n.Index, EmitNode(n.Table, b))), OpSetIndex, Nil)
      [] n.k = "IndexAccess" ->
           Emit(EmitNode(n.Index, EmitNode(n.Table, b)), OpGetIndex, Nil)
      [] n.k = "ExprStmt" -> Emit(EmitNode(n.Expr, b), OpPop, Nil)
      [] n.k = "Call" -> EmitCall(n, b)
      [] n.k = "TableLiteral" ->
           IF n.IsArray THEN Emit(EmitList(n.Values, b), OpArray, Float(Len(n.Values)))
           ELSE EmitTablePairs(n, 1, Emit(b, OpTable, Nil))
      [] n.k = "WhileLoop" -> EmitWhile(n, b)
      [] n.k = "If" -> EmitIfArms(n, 1, b, <<>>)
      [] n.k = "FuncDef" -> Emit(EmitFuncBody(n, b), OpSetGlobal, Str(n.Name))
      [] n.k = "AnonymousFunc" -> EmitFuncBody(n, b)
      [] n.k = "Return" ->
           Emit(IF n.Value # NoNode THEN EmitNode(n.Value, b)
                ELSE EmitConstant(b, Nil, "nil"), OpReturn, Nil)
      [] n.k = "Break" -> Emit(b, OpJump, IntV(-1))

\* node.TypeCheck(sym): the scope afterwards (no TypeCheck returns an error)
RECURSIVE TypeCheck(_, _)
RECURSIVE TypeCheckList(_, _)
TypeCheckList(nodes, sym) ==
    IF Len(nodes) = 0 THEN sym ELSE TypeCheckList(Tail(nodes), TypeCheck(Head(nodes), sym))

RECURSIVE TypeCheckBodies(_, _)
TypeCheckBodies(bodies, sym) ==
    IF Len(bodies) = 0 THEN sym
    ELSE TypeCheckBodies(Tail(bodies), TypeCheckList(Head(bodies), sym))

TypeCheck(n, sym) ==
    CASE n.k = "ForLoop" ->
           IF n.Type = "in"
           THEN IF n.Collection # NoNode THEN Define(sym, n.LoopVar, TRUE).scope
                ELSE TypeCheckList(n.Body, Define(sym, n.LoopVar, TRUE).scope)
           ELSE LET s1 == IF n.Init # NoNode THEN TypeCheck(n.Init, sym) ELSE sym
                    s2 == IF n.Update # NoNode THEN TypeCheck(n.Update, s1) ELSE s1
                IN TypeCheckList(n.Body, s2)
      [] n.k = "Assignment" -> IF n.IsLocal THEN Define(sym, n.Name, TRUE).scope ELSE sym
      [] n.k = "If" -> TypeCheckList(n.ElseBody, TypeCheckBodies(n.Bodies, sym))
      [] n.k = "FuncDef" -> Define(sym, n.Name, FALSE).scope
      [] OTHER -> sym

\* ----------------------------------------------------------- formatting
\* the decimal digits of a natural number, as bytes
RECURSIVE Digits(_)
Digits(n) == IF n < 10 THEN <<48 + n>> ELSE Digits(n \div 10) \o <<48 + (n % 10)>>

\* up to k decimal digits of r/den (0 <= r < den), stopping when exact
RECURSIVE FracDigits(_, _, _)
FracDigits(r, den, k) ==
    IF r = 0 \/ k = 0 THEN <<>>
    ELSE <<48 + ((10 * r) \div den)>> \o FracDigits((10 * r) % den, den, k - 1)

FormatFloat(v) ==
    (IF v.n < 0 THEN <<45>> ELSE <<>>)
    \o Digits(Abs(v.n) \div v.d)
    \o (IF v.d = 1 THEN <<>> ELSE <<46>> \o FracDigits(Abs(v.n) % v.d, v.d, 16))

\* byte sequences in lexicographic order
RECURSIVE BytesLess(_, _)
BytesLess(x, y) ==
    IF Len(y) = 0 THEN FALSE
    ELSE IF Len(x) = 0 THEN TRUE
    ELSE IF x[1] # y[1] THEN x[1] < y[1]
    ELSE BytesLess(Tail(x), Tail(y))

RECURSIVE SortedKeys(_)
SortedKeys(keys) ==
    IF keys = {} THEN <<>>
    ELSE LET least == CHOOSE x \in keys : \A y \in keys : x = y \/ BytesLess(x, y)
         IN <<least>> \o SortedKeys(keys \ {least})

\* fmt.Sprintf("%v", val); depth bounds the nesting that is followed
RECURSIVE Format(_, _, _)
RECURSIVE FormatElems(_, _, _)
RECURSIVE FormatPairs(_, _, _, _)
FormatElems(heap, elems, depth) ==
    IF Len(elems) = 0 THEN <<>>
    ELSE Format(heap, Head(elems), depth)
         \o (IF Len(elems) > 1 THEN <<32>> ELSE <<>>)
         \o FormatElems(heap, Tail(elems), depth)

FormatPairs(heap, m, keys, depth) ==
    IF Len(keys) = 0 THEN <<>>
    ELSE Head(keys) \o <<58>> \o Format(heap, m[Head(keys)], depth)
         \o (IF Len(keys) > 1 THEN <<32>> ELSE <<>>)
         \o FormatPairs(heap, m, Tail(keys), depth)

Format(heap, val, depth) ==
    CASE val.t = "nil" -> <<60, 110, 105, 108, 62>>
      [] val.t = "float" -> FormatFloat(val)
      [] val.t = "int" -> (IF val.n < 0 THEN <<45>> ELSE <<>>) \o Digits(Abs(val.n))
      [] val.t = "str" -> val.s
      [] val.t = "bool" -> IF val.b THEN <<116, 114, 117, 101>>
                           ELSE <<102, 97, 108, 115, 101>>
      [] val.t = "ref" ->
           LET obj == heap[val.ref]
           IN IF depth = 0 THEN <<>>
              ELSE IF obj.kind = "slice"
              THEN <<91>> \o FormatElems(heap, obj.elems, depth - 1) \o <<93>>
              ELSE <<109, 97, 112, 91>>
                   \o FormatPairs(heap, obj.m, SortedKeys(DOMAIN obj.m), depth - 1)
                   \o <<93>>
      [] OTHER -> <<>>

FormatDepth == 3
Sprint(heap, val) == Format(heap, val, FormatDepth)

\* --------------------------------------------------------------------- VM
\* the slots NewVM allocates for the evaluation stack
StackSize == 8

Frame(ip, sp, argCount) == [Ip |-> ip, Sp |-> sp, ArgCount |-> argCount]

\* Heap holds the slices and maps the run has allocated; Out is what the
\* builtin print has written; Cache is the set of instruction sites whose
\* adaptOp closure has installed its float fast path; status is where Run
\* stands: "idle", "running", "halted" (Run returned nil on Halt),
\* "returned" (Run returned nil with an empty call stack), "error" (Run
\* returned err), "panic" (the process died), "spin" (Run loops forever
\* with the instruction pointer at or past the end); Funcs records which
\* heap objects MakeFunc created (Go keeps no such mark: they are maps like
\* any other); Ran[i] counts how often this Run has executed instruction
\* i - 1, and last is the index of the instruction executed last;
\* Stored[<<d, i>>] is the value the latest SetLocal i has stored in the frame
\* that is d-th on the call stack (Go keeps no such record either)
NewVM ==
    [Instructions |-> <<>>, Constants |-> <<>>,
     Stack |-> [i \in 1..StackSize |-> Nil], Sp |-> 0,
     CallStack |-> <<>>, Globals |-> <<>>, Heap |-> <<>>, Out |-> <<>>,
     Cache |-> {}, Funcs |-> {}, status |-> "idle", err |-> "", last |-> -1,
     Ran |-> <<>>, Stored |-> <<>>]

Map(m) == [kind |-> "map", m |-> m]
Slice(elems) == [kind |-> "slice", elems |-> elems]
EmptyMap == Map(<<>>)

S_type == <<116, 121, 112, 101>>
S_entry == <<101, 110, 116, 114, 121>>
S_function == <<102, 117, 110, 99, 116, 105, 111, 110>>

toFloat64(val) ==
    CASE val.t = "float" -> val
      [] val.t = "int" -> Float(val.n)
      [] val.t = "fraw" -> val
      [] OTHER -> Float(0)

RatAdd(a, b) == Rat(a.n * b.d + b.n * a.d, a.d * b.d)
RatSub(a, b) == Rat(a.n * b.d - b.n * a.d, a.d * b.d)
RatMul(a, b) == Rat(a.n * b.n, a.d * b.d)
RatDiv(a, b) == Rat(a.n * b.d, a.d * b.n)
RatLess(a, b) == a.n * b.d < b.n * a.d

Num(b) == IF b THEN Float(1) ELSE Float(0)

Top(m) == m.CallStack[Len(m.CallStack)]
Slot(m, i) == m.Stack[i + 1]

Panic(m, why) == [m EXCEPT !.status = "panic", !.err = why]
Fault(m, e) == [m EXCEPT !.status = "error", !.err = e]

\* v.push(val)
push(m, val) ==
    IF m.Sp < 0 THEN Panic(m, "index out of range")
    ELSE LET n == Len(m.Stack)
             st == IF m.Sp >= n
                   THEN [i \in 1..(n + (n \div 2)) |-> IF i <= n THEN m.Stack[i] ELSE Nil]
                   ELSE m.Stack
         IN [m EXCEPT !.Stack = [st EXCEPT ![m.Sp + 1] = val], !.Sp = m.Sp + 1]

\* the VM after k calls of v.pop() that did not panic
Dropped(m, k) == [m EXCEPT !.Sp = m.Sp - k]

\* whether the k-th of k successive v.pop() calls panics
Underflow(m, k) == m.Sp < k

\* the operand popped j-th (1 = first popped = the top)
Popped(m, j) == Slot(m, m.Sp - j)

\* the Go heap: a new object, and a pointer to it
Alloc(m, obj) == [m EXCEPT !.Heap = Append(m.Heap, obj)]
NewRef(m) == Ref(Len(m.Heap) + 1)

IsSlice(m, v) == v.t = "ref" /\ m.Heap[v.ref].kind = "slice"
IsMap(m, v) == v.t = "ref" /\ m.Heap[v.ref].kind = "map"

\* a == b on two interface{} values; "panic" for two slices or two maps
IfaceEq(m, a, b) ==
    IF a.t = "ref" /\ b.t = "ref"
    THEN IF m.Heap[a.ref].kind = m.Heap[b.ref].kind THEN "panic" ELSE "false"
    ELSE IF a = b THEN "true" ELSE "false"

\* val == nil || val == 0.0 || val == false || val == ""
Falsy(val) == val = Nil \/ val = Float(0) \/ val = Bool(FALSE) \/ val = Str(<<>>)

IsNum(v) == v.t \in {"float", "int"}

\* genericAdd(a, b)
genericAdd(m, a, b) ==
    CASE a.t = "float" /\ IsNum(b) -> RatAdd(a, toFloat64(b))
      [] a.t = "int" /\ IsNum(b) -> RatAdd(toFloat64(a), toFloat64(b))
      [] OTHER -> Str(Sprint(m.Heap, a) \o Sprint(m.Heap, b))

\* a faulty subtraction that takes the operands in the order they are popped
\* (C33 is sensitive to it)
genericSubPopOrder(m, a, b) == RatSub(toFloat64(b), toFloat64(a))

genericSub(m, a, b) == RatSub(toFloat64(a), toFloat64(b))
genericMul(m, a, b) == RatMul(toFloat64(a), toFloat64(b))

\* the closure adaptOp returns, at instruction site `site`; generic and
\* float are the two handlers, each a tag naming the operation
Handle(tag, m, a, b) ==
    CASE tag = "add" -> genericAdd(m, a, b)
      [] tag = "sub" -> genericSub(m, a, b)
      [] OTHER -> genericMul(m, a, b)

FloatHandle(tag, a, b) ==
    CASE tag = "add" -> RatAdd(a, b)
      [] tag = "sub" -> RatSub(a, b)
      [] OTHER -> RatMul(a, b)

\* a faulty closure whose cached float path, once installed, converts
\* whatever operands it is given (C39 is sensitive to it)
adaptOpKeepsFloatPath(tag, m, site) ==
    IF Underflow(m, 2) THEN Panic(m, "Stack Underflow")
    ELSE LET b == Popped(m, 1)
             a == Popped(m, 2)
             m2 == Dropped(m, 2)
         IN IF site \in m.Cache
            THEN push(m2, FloatHandle(tag, toFloat64(a), toFloat64(b)))
            ELSE IF a.t = "float" /\ b.t = "float"
            THEN push([m2 EXCEPT !.Cache = m.Cache \cup {site}], FloatHandle(tag, a, b))
            ELSE push(m2, Handle(tag, m, a, b))

adaptOp(tag, m, site) ==
    IF Underflow(m, 2) THEN Panic(m, "Stack Underflow")
    ELSE LET b == Popped(m, 1)
             a == Popped(m, 2)
             m2 == Dropped(m, 2)
         IN IF site \in m.Cache /\ a.t = "float" /\ b.t = "float"
            THEN push(m2, FloatHandle(tag, a, b))
            ELSE IF a.t = "float" /\ b.t = "float"
            THEN push([m2 EXCEPT !.Cache = m.Cache \cup {site}], FloatHandle(tag, a, b))
            ELSE push(m2, Handle(tag, m, a, b))

\* the builtin registry (builtins.Builtins): len and print
IsBuiltin(name) == name \in {S_len, S_print}

\* fn(args) for a builtin: the VM afterwards (print writes a line) and res
CallBuiltin(m, name, args) ==
    IF name = S_len
    THEN [vm |-> m,
          res |-> IF Len(args) >= 1 /\ IsSlice(m, args[1])
                  THEN Float(Len(m.Heap[args[1].ref].elems))
                  ELSE IF Len(args) >= 1 /\ IsMap(m, args[1])
                  THEN Float(Cardinality(DOMAIN m.Heap[args[1].ref].m))
                  ELSE IF Len(args) >= 1 /\ args[1].t = "str"
                  THEN Float(Len(args[1].s))
                  ELSE Float(0)]
    ELSE [vm |-> [m EXCEPT !.Out = Append(m.Out, FormatElems(m.Heap, args, FormatDepth))],
          res |-> Nil]

\* a map value with "type" == "function"
IsFunctionObject(m, val) ==
    /\ IsMap(m, val)
    /\ S_type \in DOMAIN m.Heap[val.ref].m
    /\ m.Heap[val.ref].m[S_type] = Str(S_function)

\* the frame push of OpCall and OpCallIndirect for the function object val
\* a faulty call that puts the frame base at the stack pointer, above the
\* arguments (C8 is sensitive to it)
PushFrameAboveArgs(m, val, count) ==
    LET fn == m.Heap[val.ref].m
    IN IF S_entry \notin DOMAIN fn \/ fn[S_entry].t # "float"
       THEN Panic(m, "interface conversion")
       ELSE [m EXCEPT !.CallStack =
                 Append(m.CallStack, Frame(TruncRat(fn[S_entry]), m.Sp, count))]

\* a faulty call that takes the arguments off the evaluation stack when it
\* pushes the frame (C37 is sensitive to it)
PushFrameDropsArgs(m, val, count) ==
    LET fn == m.Heap[val.ref].m
    IN IF S_entry \notin DOMAIN fn \/ fn[S_entry].t # "float"
       THEN Panic(m, "interface conversion")
       ELSE [m EXCEPT !.CallStack =
                 Append(m.CallStack, Frame(TruncRat(fn[S_entry]), m.Sp - count, count)),
                      !.Sp = m.Sp - count]

PushFrame(m, val, count) ==
    LET fn == m.Heap[val.ref].m
    IN IF S_entry \notin DOMAIN fn \/ fn[S_entry].t # "float"
       THEN Panic(m, "interface conversion")
       ELSE [m EXCEPT !.CallStack =
                 Append(m.CallStack, Frame(TruncRat(fn[S_entry]), m.Sp - count, count))]

\* int(idx) for the index operand of OpSetIndex and OpGetIndex
IndexOf(index) == TruncRat(toFloat64(index))

OpConstantDo(m, inst) == push(m, m.Constants[TruncRat(inst.Arg) + 1].Value)

OpTableDo(m, inst) == push(Alloc(m, EmptyMap), NewRef(m))

OpArrayDo(m, inst) ==
    LET count == TruncRat(inst.Arg)
        base == m.Sp - count
    IN IF count < 0 THEN Panic(m, "makeslice: len out of range")
       ELSE IF base < 0 THEN Panic(m, "slice bounds out of range")
       ELSE push(Alloc([m EXCEPT !.Sp = base],
                       Slice([i \in 1..count |-> Slot(m, base + i - 1)])), NewRef(m))

OpCmpEqDo(m, inst) ==
    IF Underflow(m, 2) THEN Panic(m, "Stack Underflow")
    ELSE LET eq == IfaceEq(m, Popped(m, 2), Popped(m, 1))
         IN IF eq = "panic" THEN Panic(m, "comparing uncomparable type")
            ELSE push(Dropped(m, 2), Num(eq = "true"))

OpCmpNeDo(m, inst) ==
    IF Underflow(m, 2) THEN Panic(m, "Stack Underflow")
    ELSE LET eq == IfaceEq(m, Popped(m, 2), Popped(m, 1))
         IN IF eq = "panic" THEN Panic(m, "comparing uncomparable type")
            ELSE push(Dropped(m, 2), Num(eq = "false"))

\* OpCmpLt, OpCmpLte, OpCmpGt, OpCmpGte: both operands through toFloat64
OpCompareDo(m, inst) ==
    IF Underflow(m, 2) THEN Panic(m, "Stack Underflow")
    ELSE LET b == toFloat64(Popped(m, 1))
             a == toFloat64(Popped(m, 2))
         IN push(Dropped(m, 2),
                 Num(CASE inst.Op = OpCmpLt -> RatLess(a, b)
                       [] inst.Op = OpCmpLte -> ~RatLess(b, a)
                       [] inst.Op = OpCmpGt -> RatLess(b, a)
                       [] OTHER -> ~RatLess(a, b)))

\* a faulty Div that yields 0 for a zero divisor and carries on (C11 is
\* sensitive to it)
DivYieldsZero(m, inst) ==
    IF Underflow(m, 2) THEN Panic(m, "Stack Underflow")
    ELSE LET bf == toFloat64(Popped(m, 1))
             af == toFloat64(Popped(m, 2))
         IN push(Dropped(m, 2), IF bf = Float(0) THEN Float(0) ELSE RatDiv(af, bf))

OpDivDo(m, inst) ==
    IF Underflow(m, 2) THEN Panic(m, "Stack Underflow")
    ELSE LET bf == toFloat64(Popped(m, 1))
             af == toFloat64(Popped(m, 2))
         IN IF bf = Float(0) THEN Fault(Dropped(m, 2), "div by zero")
            ELSE push(Dropped(m, 2), RatDiv(af, bf))

\* a faulty Not that pushes 0.0 whatever it pops (C17 is sensitive to it)
NotYieldsZero(m, inst) ==
    IF Underflow(m, 1) THEN Panic(m, "Stack Underflow")
    ELSE push(Dropped(m, 1), Float(0))

OpNotDo(m, inst) ==
    IF Underflow(m, 1) THEN Panic(m, "Stack Underflow")
    ELSE push(Dropped(m, 1), Num(Falsy(Popped(m, 1))))

OpSetGlobalDo(m, inst) ==
    IF Underflow(m, 1) THEN Panic(m, "Stack Underflow")
    ELSE [Dropped(m, 1) EXCEPT !.Globals = (inst.Arg.s :> Popped(m, 1)) @@ m.Globals]

OpGetGlobalDo(m, inst) ==
    push(m, IF inst.Arg.s \in DOMAIN m.Globals THEN m.Globals[inst.Arg.s] ELSE Nil)

OpSetLocalDo(m, inst) ==
    LET at == Top(m).Sp + TruncRat(inst.Arg)
    IN IF Underflow(m, 1) THEN Panic(m, "Stack Underflow")
       ELSE IF at < 0 \/ at >= Len(m.Stack) THEN Panic(m, "index out of range")
       ELSE [Dropped(m, 1) EXCEPT
                 !.Stack[at + 1] = Popped(m, 1),
                 !.Stored = (<<Len(m.CallStack), TruncRat(inst.Arg)>> :> Popped(m, 1)) @@ @]

OpGetLocalDo(m, inst) ==
    LET at == Top(m).Sp + TruncRat(inst.Arg)
    IN IF at < 0 \/ at >= Len(m.Stack) THEN Panic(m, "index out of range")
       ELSE push(m, Slot(m, at))

OpGetIndexDo(m, inst) ==
    IF Underflow(m, 2) THEN Panic(m, "Stack Underflow")
    ELSE LET index == Popped(m, 1)
             table == Popped(m, 2)
             m2 == Dropped(m, 2)
         IN IF IsSlice(m, table)
            THEN LET t == m.Heap[table.ref].elems
                     i == IndexOf(index)
                 IN push(m2, IF i >= 0 /\ i < Len(t) THEN t[i + 1] ELSE Nil)
            ELSE IF IsMap(m, table)
            THEN LET t == m.Heap[table.ref].m
                     key == Sprint(m.Heap, index)
                 IN push(m2, IF key \in DOMAIN t THEN t[key] ELSE Nil)
            ELSE push(m2, Nil)

OpSetIndexDo(m, inst) ==
    IF Underflow(m, 3) THEN Panic(m, "Stack Underflow")
    ELSE LET val == Popped(m, 1)
             index == Popped(m, 2)
             table == Popped(m, 3)
             m3 == Dropped(m, 3)
         IN IF IsSlice(m, table)
            THEN LET i == IF index.t = "int" THEN index.n ELSE IndexOf(index)
                 IN push(IF i >= 0 /\ i < Len(m.Heap[table.ref].elems)
                         THEN [m3 EXCEPT !.Heap[table.ref].elems[i + 1] = val]
                         ELSE m3, table)
            ELSE IF IsMap(m, table)
            THEN push([m3 EXCEPT !.Heap[table.ref].m =
                           (Sprint(m.Heap, index) :> val) @@ m.Heap[table.ref].m], table)
            ELSE m3

\* a faulty Call that looks the name up in the globals before the builtin
\* registry (C28 is sensitive to it)
CallGlobalFirst(m, inst) ==
    IF Underflow(m, 1) THEN Panic(m, "Stack Underflow")
    ELSE LET count == TruncRat(toFloat64(Popped(m, 1)))
             m1 == Dropped(m, 1)
             target == inst.Arg.s
             base == m1.Sp - count
         IN IF target \in DOMAIN m.Globals /\ IsFunctionObject(m, m.Globals[target])
            THEN PushFrame(m1, m.Globals[target], count)
            ELSE IF ~IsBuiltin(target) THEN Fault(m1, "function not found")
            ELSE IF count < 0 \/ base < 0 THEN Panic(m1, "slice bounds out of range")
            ELSE LET r == CallBuiltin([m1 EXCEPT !.Sp = base], target,
                                      [i \in 1..count |-> Slot(m1, base + i - 1)])
                 IN push(r.vm, r.res)

OpCallDo(m, inst) ==
    IF Underflow(m, 1) THEN Panic(m, "Stack Underflow")
    ELSE LET count == TruncRat(toFloat64(Popped(m, 1)))
             m1 == Dropped(m, 1)
             target == inst.Arg.s
             base == m1.Sp - count
         IN IF IsBuiltin(target)
            THEN IF count < 0 THEN Panic(m1, "makeslice: len out of range")
                 ELSE IF base < 0 THEN Panic(m1, "slice bounds out of range")
                 ELSE LET r == CallBuiltin([m1 EXCEPT !.Sp = base], target,
                                           [i \in 1..count |-> Slot(m1, base + i - 1)])
                      IN push(r.vm, r.res)
            ELSE IF target \in DOMAIN m.Globals /\ IsFunctionObject(m, m.Globals[target])
            THEN PushFrame(m1, m.Globals[target], count)
            ELSE Fault(m1, "function not found")

OpCallIndirectDo(m, inst) ==
    IF Underflow(m, 1) THEN Panic(m, "Stack Underflow")
    ELSE IF Popped(m, 1).t \notin {"float", "fraw"} THEN Panic(m, "interface conversion")
    ELSE IF Underflow(m, 2) THEN Panic(m, "Stack Underflow")
    ELSE LET count == TruncRat(Popped(m, 1))
             val == Popped(m, 2)
             m2 == Dropped(m, 2)
         IN IF IsFunctionObject(m, val) THEN PushFrame(m2, val, count)
            ELSE Fault(m2, "cannot call non-function")

\* a faulty Return that pushes the result without dropping the callee's
\* stack (C6 is sensitive to it)
ReturnKeepsStack(m, inst) ==
    LET callers == SubSeq(m.CallStack, 1, Len(m.CallStack) - 1)
    IN IF Len(callers) > 0
       THEN push([m EXCEPT !.CallStack = callers], IF m.Sp > 0 THEN Popped(m, 1) ELSE Nil)
       ELSE [m EXCEPT !.CallStack = callers, !.Sp = 0]

\* a faulty Return that sends the caller back to the instruction it was
\* called from (C25 is sensitive to it)
ReturnToTheCall(m, inst) ==
    LET frameSp == Top(m).Sp
        callers == SubSeq(m.CallStack, 1, Len(m.CallStack) - 1)
    IN IF Len(callers) > 0
       THEN push([m EXCEPT !.CallStack = [callers EXCEPT ![Len(callers)].Ip = @ - 1],
                           !.Sp = frameSp],
                 IF m.Sp > frameSp THEN Popped(m, 1) ELSE Nil)
       ELSE [m EXCEPT !.CallStack = callers, !.Sp = 0]

OpReturnDo(m, inst) ==
    LET frameSp == Top(m).Sp
        hasVal == m.Sp > frameSp
        callers == SubSeq(m.CallStack, 1, Len(m.CallStack) - 1)
    IN IF hasVal /\ Underflow(m, 1) THEN Panic(m, "Stack Underflow")
       ELSE IF Len(callers) > 0
       THEN push([m EXCEPT !.CallStack = callers, !.Sp = frameSp],
                 IF hasVal THEN Popped(m, 1) ELSE Nil)
       ELSE [m EXCEPT !.CallStack = callers, !.Sp = 0]

OpMakeFuncDo(m, inst) ==
    push(Alloc([m EXCEPT !.Funcs = m.Funcs \cup {Len(m.Heap) + 1}],
               Map((S_type :> Str(S_function))
                   @@ (S_entry :> m.Constants[TruncRat(inst.Arg) + 1].Value))),
         NewRef(m))

SetIp(m, target) == [m EXCEPT !.CallStack[Len(m.CallStack)].Ip = target]

\* a faulty Jump that goes on with the next instruction (C27 is sensitive
\* to it)
JumpFallsThrough(m, inst) == m

OpJumpDo(m, inst) == SetIp(m, TruncRat(toFloat64(inst.Arg)))

\* a faulty JumpIfFalse that jumps on a truthy operand (C18 is sensitive to
\* it)
JumpIfTrue(m, inst) ==
    IF Underflow(m, 1) THEN Panic(m, "Stack Underflow")
    ELSE IF Falsy(Popped(m, 1)) THEN Dropped(m, 1)
    ELSE SetIp(Dropped(m, 1), TruncRat(toFloat64(inst.Arg)))

OpJumpIfFalseDo(m, inst) ==
    IF Underflow(m, 1) THEN Panic(m, "Stack Underflow")
    ELSE IF Falsy(Popped(m, 1)) THEN SetIp(Dropped(m, 1), TruncRat(toFloat64(inst.Arg)))
    ELSE Dropped(m, 1)

\* a faulty Pop that ends the run as Halt does (C9 is sensitive to it)
PopEndsRun(m, inst) == [m EXCEPT !.status = "halted"]

OpPopDo(m, inst) == IF m.Sp > 0 THEN Dropped(m, 1) ELSE m

OpHaltDo(m, inst) == [m EXCEPT !.status = "halted"]

\* the closure makeOp(inst) builds, applied at instruction index site
makeOp(m, inst, site) ==
    CASE inst.Op = OpConstant -> OpConstantDo(m, inst)
      [] inst.Op = OpTable -> OpTableDo(m, inst)
      [] inst.Op = OpArray -> OpArrayDo(m, inst)
      [] inst.Op = OpCmpEq -> OpCmpEqDo(m, inst)
      [] inst.Op = OpCmpNe -> OpCmpNeDo(m, inst)
      [] inst.Op \in {OpCmpLt, OpCmpLte, OpCmpGt, OpCmpGte} -> OpCompareDo(m, inst)
      [] inst.Op = OpAdd -> adaptOp("add", m, site)
      [] inst.Op = OpSub -> adaptOp("sub", m, site)
      [] inst.Op = OpMul -> adaptOp("mul", m, site)
      [] inst.Op = OpDiv -> OpDivDo(m, inst)
      [] inst.Op = OpNot -> OpNotDo(m, inst)
      [] inst.Op = OpSetGlobal -> OpSetGlobalDo(m, inst)
      [] inst.Op = OpGetGlobal -> OpGetGlobalDo(m, inst)
      [] inst.Op = OpSetLocal -> OpSetLocalDo(m, inst)
      [] inst.Op = OpGetLocal -> OpGetLocalDo(m, inst)
      [] inst.Op = OpGetIndex -> OpGetIndexDo(m, inst)
      [] inst.Op = OpSetIndex -> OpSetIndexDo(m, inst)
      [] inst.Op = OpCall -> OpCallDo(m, inst)
      [] inst.Op = OpCallIndirect -> OpCallIndirectDo(m, inst)
      [] inst.Op = OpReturn -> OpReturnDo(m, inst)
      [] inst.Op = OpMakeFunc -> OpMakeFuncDo(m, inst)
      [] inst.Op = OpJump -> OpJumpDo(m, inst)
      [] inst.Op = OpJumpIfFalse -> OpJumpIfFalseDo(m, inst)
      [] inst.Op = OpPop -> OpPopDo(m, inst)
      [] inst.Op = OpHalt -> OpHaltDo(m, inst)
      [] OTHER -> m

\* whether makeOp(inst) runs without a panic while v.precompile() builds the
\* closures: the type assertions on inst.Arg and the constant-pool lookups
PrecompileOK(inst, constants) ==
    CASE inst.Op \in {OpConstant, OpMakeFunc} ->
           inst.Arg.t = "float" /\ TruncRat(inst.Arg) >= 0
           /\ TruncRat(inst.Arg) < Len(constants)
      [] inst.Op \in {OpArray, OpSetLocal, OpGetLocal} -> inst.Arg.t = "float"
      [] inst.Op \in {OpSetGlobal, OpGetGlobal, OpCall} -> inst.Arg.t = "str"
      [] OTHER -> TRUE

\* Run("") up to the first iteration of its loop: precompile, and the
\* top-level frame
StartRun(m) ==
    IF \E i \in 1..Len(m.Instructions) : ~PrecompileOK(m.Instructions[i], m.Constants)
    THEN Panic(m, "precompile")
    ELSE [m EXCEPT !.CallStack = <<Frame(0, 0, 0)>>, !.status = "running",
                   !.err = "", !.Cache = {}, !.Stored = <<>>,
                   !.Ran = [i \in 1..Len(m.Instructions) |-> 0]]

\* f.Ip++ on the instruction at index ip, recorded as the last one fetched
Fetched(m) ==
    [SetIp(m, Top(m).Ip + 1) EXCEPT !.last = Top(m).Ip, !.Ran[Top(m).Ip + 1] = @ + 1]

\* the record of stored locals without the frames that are gone
LiveStored(m) ==
    [k \in {k \in DOMAIN m.Stored : k[1] <= Len(m.CallStack)} |-> m.Stored[k]]

\* the exit of Run's outer loop when the op has emptied the call stack
AfterOp(m) ==
    IF m.status = "running" /\ Len(m.CallStack) = 0
    THEN [m EXCEPT !.status = "returned", !.Stored = <<>>]
    ELSE [m EXCEPT !.Stored = LiveStored(m)]

\* one iteration of Run's inner loop: fetch, f.Ip++, op(v, f)
RunStep(m) ==
    LET ip == Top(m).Ip
    IN IF ip < 0 THEN Panic(m, "index out of range")
       ELSE IF ip >= Len(m.Instructions) THEN [m EXCEPT !.status = "spin"]
       ELSE AfterOp(makeOp(Fetched(m), m.Instructions[ip + 1], ip))

\* ------------------------------------------------------------ state machine
VARIABLES phase, nodes, ni, b, file, loaded, vm, vmF
vars == <<phase, nodes, ni, b, file, loaded, vm, vmF>>

\* bounds of the exploration
MaxSp == 10
MaxFrames == 4
MaxHeap == 12
MaxOut == 3
MaxNum == 70
MaxLit == 2
MaxRan == 6

\* the run stays inside the bounds explored
InBounds(m) ==
    /\ m.Sp <= MaxSp
    /\ Len(m.CallStack) <= MaxFrames
    /\ Len(m.Heap) <= MaxHeap
    /\ Len(m.Out) <= MaxOut
    /\ \A i \in 1..Len(m.Ran) : m.Ran[i] <= MaxRan
    /\ m.Sp > 0 /\ Slot(m, m.Sp - 1).t = "float" =>
           Abs(Slot(m, m.Sp - 1).n) <= MaxNum /\ Slot(m, m.Sp - 1).d <= MaxNum

\* names used by the programs explored
N_x == <<120>>
N_s == <<115>>
N_i == <<105>>
N_t == <<116>>
N_f == <<102>>
N_a == <<97>>
N_b == <<98>>
N_add == <<97, 100, 100>>

\* what the parser builds: number literals are float64, every assignment
\* has IsLocal false
NumLit(n) == LiteralNode(Float(n), "number")
StrLit(s) == LiteralNode(Str(s), "string")
V(name) == VariableNode(name)
Set(name, e) == AssignmentNode(name, e, FALSE)
Bin(l, op, r) == BinaryOpNode(l, op, r)
PrintStmt(e) == ExprStmtNode(CallNode(S_print, <<e>>))
Lits == 0..MaxLit

\* the end-to-end scenarios
ProgLet == <<Set(N_x, Bin(NumLit(1), "+", NumLit(2))), PrintStmt(V(N_x))>>
ProgAdd ==
    <<FuncDefNode(N_add, <<N_a, N_b>>, <<ReturnNode(Bin(V(N_a), "+", V(N_b)))>>),
      PrintStmt(CallNode(N_add, <<NumLit(2), NumLit(3)>>))>>
ProgWhile(n) ==
    <<Set(N_i, NumLit(0)),
      WhileLoopNode(Bin(V(N_i), "<", NumLit(n)), <<Set(N_i, Bin(V(N_i), "+", NumLit(1)))>>),
      PrintStmt(V(N_i))>>
ProgForIn(elems) ==
    <<Set(N_s, NumLit(0)),
      ForInNode(N_x, ArrayLiteralNode(elems), <<Set(N_s, Bin(V(N_s), "+", V(N_x)))>>),
      PrintStmt(V(N_s))>>
ProgForIn123 == ProgForIn(<<NumLit(10), NumLit(20), NumLit(30)>>)
ProgTable ==
    <<Set(N_t, TableLiteralNode(<<N_a>>, <<NumLit(1)>>)),
      IndexAssignNode(V(N_t), StrLit(N_b), NumLit(2)),
      PrintStmt(Bin(IndexAccessNode(V(N_t), StrLit(N_a)), "+",
                    IndexAccessNode(V(N_t), StrLit(N_b))))>>
ProgDiv == <<PrintStmt(Bin(NumLit(1), "/", NumLit(0)))>>
Scenarios ==
    {ProgLet, ProgAdd, ProgTable, ProgDiv, ProgForIn123}
    \cup {ProgWhile(n) : n \in Lits \cup {3}}
    \cup {ProgForIn([i \in 1..n |-> NumLit(10 * i)]) : n \in Lits}

\* x = p op q ; print(x)
BinaryOps == {"+", "-", "*", "/", "==", "!=", "<", "<=", ">", ">=", "and", "or"}
ProgArith == {<<Set(N_x, Bin(NumLit(p), op, NumLit(q))), PrintStmt(V(N_x))>> :
                  p \in Lits, q \in Lits, op \in BinaryOps}

\* x = not p
ProgNot == {<<Set(N_x, UnaryOpNode("not", NumLit(p)))>> : p \in Lits}
             \cup {<<Set(N_x, UnaryOpNode("not", UnaryOpNode("not", StrLit(<<>>))))>>}

\* statements of a function body with the parameter a
Incr(name) == Set(name, Bin(V(name), "+", NumLit(1)))
ForC(k, body) == ForCNode(Set(N_i, NumLit(0)), Bin(V(N_i), "<", NumLit(k)), Incr(N_i), body)
FuncBodies ==
    {<<>>,
     <<ReturnNode(V(N_a))>>,
     <<ReturnNode(NoNode)>>,
     <<IfNode(<<V(N_a)>>, <<<<ReturnNode(NumLit(1))>>>>, <<>>)>>,
     <<IfNode(<<V(N_a)>>, <<<<ReturnNode(NumLit(1))>>>>, <<ReturnNode(NumLit(2))>>)>>,
     <<IfNode(<<Bin(V(N_a), "==", NumLit(0)), Bin(V(N_a), "==", NumLit(1))>>,
              <<<<Set(N_x, NumLit(1))>>, <<Set(N_x, NumLit(2))>>>>, <<Set(N_x, NumLit(3))>>),
       ReturnNode(V(N_x))>>,
     <<WhileLoopNode(Bin(V(N_a), "<", NumLit(2)), <<Incr(N_a)>>), ReturnNode(V(N_a))>>,
     <<WhileLoopNode(V(N_a), <<BreakNode>>)>>,
     <<WhileLoopNode(V(N_a), <<ReturnNode(V(N_a))>>)>>,
     <<PrintStmt(V(N_a))>>}
    \cup {<<ForC(k, <<>>), ReturnNode(V(N_a))>> : k \in Lits}
    \cup {<<ForInNode(N_x, ArrayLiteralNode(<<V(N_a), NumLit(k)>>), <<Incr(N_s)>>)>> :
              k \in Lits}
    \cup {<<ForInNode(N_x, ArrayLiteralNode(<<V(N_a)>>),
                       <<Set(N_s, Bin(NumLit(1), "+", V(N_x)))>>)>>}

\* func f(a) body end, then a call of it
Callers(arg) ==
    {Set(N_x, CallNode(N_f, <<arg>>)),
     Set(N_x, Bin(NumLit(1), "+", CallNode(N_f, <<arg>>))),
     PrintStmt(CallNode(N_f, <<arg>>))}
ProgFunc ==
    {<<FuncDefNode(N_f, <<N_a>>, body), call>> :
         body \in FuncBodies, call \in UNION {Callers(NumLit(p)) : p \in Lits}}

\* functions of no and of two parameters, anonymous functions, indirect calls
\* func f() for (i = 0; i < k; i = i + 1) do end end ; x = 1 + f()
ProgLoopCall(k) ==
    <<FuncDefNode(N_f, <<>>, <<ForC(k, <<>>)>>),
      Set(N_x, Bin(NumLit(1), "+", CallNode(N_f, <<>>)))>>

\* func f(a) if a == MaxLit then return a else return f(a + 1) end end ; x = f(p)
ProgRecur(p) ==
    <<FuncDefNode(N_f, <<N_a>>,
          <<IfNode(<<Bin(V(N_a), "==", NumLit(MaxLit))>>, <<<<ReturnNode(V(N_a))>>>>,
                   <<ReturnNode(CallNode(N_f, <<Bin(V(N_a), "+", NumLit(1))>>))>>)>>),
      Set(N_x, CallNode(N_f, <<NumLit(p)>>))>>

ProgCalls ==
    {ProgLoopCall(k) : k \in Lits}
    \cup {ProgRecur(p) : p \in Lits}
    \cup {<<FuncDefNode(N_f, <<N_a, N_b>>, <<ReturnNode(Bin(V(N_a), op, V(N_b)))>>),
            PrintStmt(CallNode(N_f, <<NumLit(p), NumLit(q)>>))>> :
              p \in Lits, q \in Lits, op \in {"-", "<"}}
    \cup {<<Set(N_f, AnonymousFuncNode(<<N_a>>, body)),
            Set(N_x, CallNode(N_f, <<NumLit(p)>>))>> :
              p \in Lits, body \in {<<>>, <<ReturnNode(V(N_a))>>}}
    \cup {<<Set(N_t, TableLiteralNode(<<N_f>>,
                <<AnonymousFuncNode(<<N_a, N_b>>, <<ReturnNode(Bin(V(N_a), "-", V(N_b)))>>)>>)),
            Set(N_x, IndirectCallNode(IndexAccessNode(V(N_t), StrLit(N_f)),
                                      <<NumLit(p), NumLit(q)>>))>> :
              p \in Lits, q \in Lits}
    \cup {<<Set(N_x, IndirectCallNode(IndexAccessNode(TableLiteralNode(<<>>, <<>>), StrLit(N_f)),
                                      <<NumLit(p)>>))>> : p \in Lits}
    \cup {<<Set(N_x, CallNode(N_f, <<NumLit(p)>>))>> : p \in Lits}

\* t = value ; t[k] = 2 ; ..., the value an array, a table, a number, a
\* string
ProgIndexSet ==
    {<<Set(N_t, ArrayLiteralNode(<<NumLit(p), NumLit(q)>>)),
       IndexAssignNode(V(N_t), NumLit(k), NumLit(2)),
       PrintStmt(IndexAccessNode(V(N_t), NumLit(k)))>> :
         p \in Lits, q \in Lits, k \in Lits}
    \cup {<<Set(N_t, val), IndexAssignNode(V(N_t), NumLit(k), NumLit(2)),
            Set(N_s, V(N_t))>> :
              k \in Lits, val \in {TableLiteralNode(<<>>, <<>>), NumLit(1), StrLit(N_a)}}

\* statements at the top level: loops, break, return, arrays
ProgTop ==
    {<<Set(N_x, NumLit(p)),
       IfNode(<<V(N_x)>>, <<<<ReturnNode(NoNode)>>>>, <<>>),
       PrintStmt(V(N_x))>> : p \in Lits}
    \cup {<<Set(N_x, NumLit(p)), WhileLoopNode(V(N_x), <<BreakNode>>)>> : p \in Lits}
    \cup {<<ForC(k, <<Incr(N_s)>>)>> : k \in Lits}
    \cup {<<Set(N_s, NumLit(0)), ForC(k, <<Incr(N_s)>>), PrintStmt(V(N_s))>> : k \in Lits}
    \cup ProgIndexSet
    \cup {<<Set(N_x, Bin(ArrayLiteralNode(<<NumLit(p)>>), "==", ArrayLiteralNode(<<NumLit(p)>>)))>> :
              p \in Lits}

\* x = callee(p) with a callee that is not a variable: a number, a string,
\* nil, an array, a table, and a table written with the keys of a function
\* object
EntryCases == {0, 10}
ProgCallee ==
    {<<Set(N_x, IndirectCallNode(callee, <<NumLit(p)>>))>> :
         p \in Lits,
         callee \in {NumLit(1), StrLit(N_f), ArrayLiteralNode(<<NumLit(1)>>),
                     IndexAccessNode(ArrayLiteralNode(<<>>), NumLit(0)),
                     TableLiteralNode(<<N_a>>, <<NumLit(1)>>),
                     TableLiteralNode(<<S_type>>, <<StrLit(S_function)>>),
                     TableLiteralNode(<<S_type>>, <<StrLit(N_f)>>)}
                    \cup {TableLiteralNode(<<S_type, S_entry>>, <<StrLit(S_function), NumLit(e)>>) :
                              e \in EntryCases}}

\* f = value ; x = f(p): a call by name of a global that holds a number, a
\* string, an array, a table, or a table written with the keys of a function
\* object
ProgCallName ==
    {<<Set(N_f, val), Set(N_x, Bin(NumLit(1), "+", CallNode(N_f, <<NumLit(p)>>)))>> :
         p \in Lits,
         val \in {NumLit(1), StrLit(N_f), ArrayLiteralNode(<<NumLit(1)>>),
                  TableLiteralNode(<<N_a>>, <<NumLit(1)>>),
                  TableLiteralNode(<<S_type>>, <<StrLit(N_f)>>)}
                 \cup {TableLiteralNode(<<S_type, S_entry>>, <<StrLit(S_function), NumLit(e)>>) :
                           e \in EntryCases}}

\* x = 0 ; if c1 then x = x + 1 elseif c2 then x = x + 2 elseif c3 then
\* x = x + 4 else x = x + 8 end ; s = x, with one to MaxArms conditions that
\* are the literals 0 and 1, with and without the else
MaxArms == 3
Bump(k) == <<Set(N_x, Bin(V(N_x), "+", NumLit(k)))>>
ProgIf(conds, hasElse) ==
    <<Set(N_x, NumLit(0)),
      IfNode([i \in 1..Len(conds) |-> NumLit(conds[i])],
             [i \in 1..Len(conds) |-> Bump(Pow2(i - 1))],
             IF hasElse THEN Bump(Pow2(MaxArms)) ELSE <<>>),
      Set(N_s, V(N_x))>>
CondCases == UNION {[1..n -> {0, 1}] : n \in 1..MaxArms}
ProgIfs == {ProgIf(conds, hasElse) : conds \in CondCases, hasElse \in BOOLEAN}

\* func len(a, b) return 7 end ; x = len([.. n elements ..]), and
\* func print(a, b) return 7 end ; x = print(p, q): a function of the program
\* that bears the name of a builtin
ProgShadow ==
    {<<FuncDefNode(S_len, <<N_a, N_b>>, <<ReturnNode(NumLit(7))>>),
       Set(N_x, CallNode(S_len, <<ArrayLiteralNode([i \in 1..n |-> NumLit(i)])>>))>> :
         n \in Lits}
    \cup {<<FuncDefNode(S_print, <<N_a, N_b>>, <<ReturnNode(NumLit(7))>>),
            Set(N_x, CallNode(S_print, <<NumLit(p), NumLit(q)>>))>> : p \in Lits, q \in Lits}

\* for x in [p] do end ; func f(a) body end ; s = f(q), the body reading or
\* writing x: a name that is local in the enclosing scope only
ProgOuter ==
    {<<ForInNode(N_x, ArrayLiteralNode(<<NumLit(p)>>), <<>>),
       FuncDefNode(N_f, <<N_a>>, body),
       Set(N_s, CallNode(N_f, <<NumLit(q)>>))>> :
         p \in Lits, q \in Lits,
         body \in {<<ReturnNode(V(N_x))>>, <<Set(N_x, NumLit(1)), ReturnNode(V(N_a))>>}}

Programs ==
    ProgOuter \cup ProgShadow \cup Scenarios \cup ProgArith \cup ProgNot \cup ProgFunc \cup ProgCalls \cup ProgTop
    \cup ProgCallee \cup ProgCallName \cup ProgIfs

\* NewBuilder(), NewVM(), and the parsed program still to be emitted
Init ==
    /\ phase = "build"
    /\ nodes \in Programs
    /\ ni = 0
    /\ b = NewBuilder
    /\ file = <<>>
    /\ loaded = LoadFail("", 0)
    /\ vm = NewVM
    /\ vmF = NewVM

\* one iteration of "for _, node := range nodes": TypeCheck on the root
\* scope, then Emit
EmitTopLevel ==
    /\ phase = "build"
    /\ ni < Len(nodes)
    /\ b' = EmitNode(nodes[ni + 1],
                     [b EXCEPT !.SymbolTable[1] = TypeCheck(nodes[ni + 1], b.SymbolTable[1])])
    /\ ni' = ni + 1
    /\ UNCHANGED <<phase, nodes, file, loaded, vm, vmF>>

\* builder.Emit(OpHalt, nil) after the loop
EmitHalt ==
    /\ phase = "build"
    /\ ni = Len(nodes)
    /\ b' = Emit(b, OpHalt, Nil)
    /\ phase' = "built"
    /\ UNCHANGED <<nodes, ni, file, loaded, vm, vmF>>

\* the builder's arrays handed to a VM
WithBytecode(m, instructions, constants) ==
    [m EXCEPT !.Instructions = instructions, !.Constants = constants]

\* run <file.ll>: the builder's arrays handed to the VM, and Run("") started
RunSource ==
    /\ phase = "built"
    /\ vm' = StartRun(WithBytecode(vm, b.Instructions, b.Constants))
    /\ phase' = "run"
    /\ UNCHANGED <<nodes, ni, b, file, loaded, vmF>>

Running(m) == m.status = "running"

\* the instruction Run fetches next, when there is one
CanFetch(m) == Running(m) /\ Top(m).Ip >= 0 /\ Top(m).Ip < Len(m.Instructions)
Fetch(m) == m.Instructions[Top(m).Ip + 1]

\* Run's loop is about to execute an instruction with an opcode in ops
Fetches(ops) == phase \in {"run", "rerun"} /\ CanFetch(vm) /\ Fetch(vm).Op \in ops

\* the VM after the op, when that stays inside the bounds explored
Becomes(m) ==
    /\ InBounds(m)
    /\ vm' = m
    /\ UNCHANGED <<phase, nodes, ni, b, file, loaded, vmF>>

\* one iteration of Run's loop, by the closure makeOp built for the opcode
ExecConstant == Fetches({OpConstant}) /\ Becomes(AfterOp(OpConstantDo(Fetched(vm), Fetch(vm))))
ExecAdd == Fetches({OpAdd}) /\ Becomes(AfterOp(adaptOp("add", Fetched(vm), Top(vm).Ip)))
ExecSub == Fetches({OpSub}) /\ Becomes(AfterOp(adaptOp("sub", Fetched(vm), Top(vm).Ip)))
ExecMul == Fetches({OpMul}) /\ Becomes(AfterOp(adaptOp("mul", Fetched(vm), Top(vm).Ip)))
ExecDiv == Fetches({OpDiv}) /\ Becomes(AfterOp(OpDivDo(Fetched(vm), Fetch(vm))))
ExecCmpEq == Fetches({OpCmpEq}) /\ Becomes(AfterOp(OpCmpEqDo(Fetched(vm), Fetch(vm))))
ExecCmpNe == Fetches({OpCmpNe}) /\ Becomes(AfterOp(OpCmpNeDo(Fetched(vm), Fetch(vm))))
ExecCompare == Fetches({OpCmpLt, OpCmpLte, OpCmpGt, OpCmpGte}) /\ Becomes(AfterOp(OpCompareDo(Fetched(vm), Fetch(vm))))
ExecPop == Fetches({OpPop}) /\ Becomes(AfterOp(OpPopDo(Fetched(vm), Fetch(vm))))
ExecSetGlobal == Fetches({OpSetGlobal}) /\ Becomes(AfterOp(OpSetGlobalDo(Fetched(vm), Fetch(vm))))
ExecGetGlobal == Fetches({OpGetGlobal}) /\ Becomes(AfterOp(OpGetGlobalDo(Fetched(vm), Fetch(vm))))
ExecSetLocal == Fetches({OpSetLocal}) /\ Becomes(AfterOp(OpSetLocalDo(Fetched(vm), Fetch(vm))))
ExecGetLocal == Fetches({OpGetLocal}) /\ Becomes(AfterOp(OpGetLocalDo(Fetched(vm), Fetch(vm))))
ExecMakeFunc == Fetches({OpMakeFunc}) /\ Becomes(AfterOp(OpMakeFuncDo(Fetched(vm), Fetch(vm))))
ExecCall == Fetches({OpCall}) /\ Becomes(AfterOp(OpCallDo(Fetched(vm), Fetch(vm))))
ExecCallIndirect == Fetches({OpCallIndirect}) /\ Becomes(AfterOp(OpCallIndirectDo(Fetched(vm), Fetch(vm))))
ExecReturn == Fetches({OpReturn}) /\ Becomes(AfterOp(OpReturnDo(Fetched(vm), Fetch(vm))))
ExecJump == Fetches({OpJump}) /\ Becomes(AfterOp(OpJumpDo(Fetched(vm), Fetch(vm))))
ExecJumpIfFalse == Fetches({OpJumpIfFalse}) /\ Becomes(AfterOp(OpJumpIfFalseDo(Fetched(vm), Fetch(vm))))
ExecTable == Fetches({OpTable}) /\ Becomes(AfterOp(OpTableDo(Fetched(vm), Fetch(vm))))
ExecArray == Fetches({OpArray}) /\ Becomes(AfterOp(OpArrayDo(Fetched(vm), Fetch(vm))))
ExecSetIndex == Fetches({OpSetIndex}) /\ Becomes(AfterOp(OpSetIndexDo(Fetched(vm), Fetch(vm))))
ExecGetIndex == Fetches({OpGetIndex}) /\ Becomes(AfterOp(OpGetIndexDo(Fetched(vm), Fetch(vm))))
ExecNot == Fetches({OpNot}) /\ Becomes(AfterOp(OpNotDo(Fetched(vm), Fetch(vm))))
ExecHalt == Fetches({OpHalt}) /\ Becomes(AfterOp(OpHaltDo(Fetched(vm), Fetch(vm))))

\* Run's loop with the instruction pointer outside the array: a panic on a
\* negative index, an endless loop at or past the end
ExecOutside ==
    /\ phase \in {"run", "rerun"}
    /\ Running(vm)
    /\ ~CanFetch(vm)
    /\ vm' = RunStep(vm)
    /\ UNCHANGED <<phase, nodes, ni, b, file, loaded, vmF>>

Next ==
    \/ EmitTopLevel \/ EmitHalt \/ RunSource
    \/ ExecConstant \/ ExecAdd \/ ExecSub \/ ExecMul \/ ExecDiv
    \/ ExecCmpEq \/ ExecCmpNe \/ ExecCompare \/ ExecPop
    \/ ExecSetGlobal \/ ExecGetGlobal \/ ExecSetLocal \/ ExecGetLocal
    \/ ExecMakeFunc \/ ExecCall \/ ExecCallIndirect \/ ExecReturn
    \/ ExecJump \/ ExecJumpIfFalse \/ ExecTable \/ ExecArray
    \/ ExecSetIndex \/ ExecGetIndex \/ ExecNot \/ ExecHalt \/ ExecOutside

Spec == Init /\ [][Next]_vars

\* a second Run("") on the same VM instance, after the first has returned
\* (on Halt, with an empty call stack, or with an error)
RunAgain ==
    /\ phase = "run"
    /\ vm.status \in {"halted", "returned", "error"}
    /\ vm' = StartRun(vm)
    /\ phase' = "rerun"
    /\ UNCHANGED <<nodes, ni, b, file, loaded, vmF>>

NextRerun == Next \/ RunAgain

SpecRerun == Init /\ [][NextRerun]_vars

\* -------------------------------------------- Run(file) on a VM in use
\* a faulty loadBytecode that assigns what LoadBytecode returned before it
\* looks at the error (C38 is sensitive to it)
loadBytecodeAssignsFirst(m, r) == WithBytecode(m, r.Instructions, r.Constants)

\* v.loadBytecode(file), r being what LoadBytecode(file) returned
loadBytecode(m, r) ==
    IF r.err # "" THEN m ELSE WithBytecode(m, r.Instructions, r.Constants)

\* Run(file), file not "", up to the first iteration of its loop
RunFile(m, r) ==
    IF r.err # "" THEN Fault(loadBytecode(m, r), r.err) ELSE StartRun(loadBytecode(m, r))

\* the files handed to Run: empty, not starting with the magic bytes, a
\* well-formed file of one Halt, that file without its last byte, and that
\* file with another major version
HaltFile == WriteBytecode(<<Instruction(OpHalt, Nil, 0)>>, <<>>)
ReloadFiles ==
    {<<>>, [HaltFile EXCEPT ![1] = 0], HaltFile, SubSeq(HaltFile, 1, Len(HaltFile) - 1),
     [HaltFile EXCEPT ![5] = 3 * 16]}

\* Run(file) on the same VM instance, after the Run of the program has
\* returned
RunOnFile ==
    /\ phase = "run"
    /\ vm.status \in {"halted", "returned", "error"}
    /\ \E bytes \in ReloadFiles :
          /\ file' = bytes
          /\ loaded' = ReadBytecode(bytes)
          /\ vm' = RunFile(vm, loaded')
    /\ phase' = "rerun"
    /\ UNCHANGED <<nodes, ni, b, vmF>>

NextReload == Next \/ RunOnFile

SpecReload == Init /\ [][NextReload]_vars

\* ------------------------------------------------------ the bytecode file
\* build: SaveBytecode(output, instructions, constants)
SaveBytecode ==
    /\ phase = "built"
    /\ file' = WriteBytecode(b.Instructions, b.Constants)
    /\ phase' = "saved"
    /\ UNCHANGED <<nodes, ni, b, loaded, vm, vmF>>

\* run <file.llbytecode>: vm.loadBytecode(target); the VM keeps its arrays
\* when the load fails
LoadBytecode ==
    /\ phase \in {"saved", "altered"}
    /\ loaded' = ReadBytecode(file)
    /\ IF loaded'.err = ""
       THEN /\ vmF' = WithBytecode(vmF, loaded'.Instructions, loaded'.Constants)
            /\ phase' = "loaded"
       ELSE /\ vmF' = vmF
            /\ phase' = "loadfail"
    /\ UNCHANGED <<nodes, ni, b, file, vm>>

\* Run("") on the VM holding the emitter's arrays and on the VM holding the
\* arrays read back from the file
RunBoth ==
    /\ phase = "loaded"
    /\ vm' = StartRun(WithBytecode(vm, b.Instructions, b.Constants))
    /\ vmF' = StartRun(vmF)
    /\ phase' = "lockstep"
    /\ UNCHANGED <<nodes, ni, b, file, loaded>>

\* one iteration of Run's loop in each of the two VMs that still runs
StepBoth ==
    /\ phase = "lockstep"
    /\ Running(vm) \/ Running(vmF)
    /\ LET m == IF Running(vm) THEN RunStep(vm) ELSE vm
           mF == IF Running(vmF) THEN RunStep(vmF) ELSE vmF
       IN /\ InBounds(m) /\ InBounds(mF)
          /\ vm' = m
          /\ vmF' = mF
    /\ UNCHANGED <<phase, nodes, ni, b, file, loaded>>

NextBytecode ==
    \/ EmitTopLevel \/ EmitHalt \/ SaveBytecode \/ LoadBytecode \/ RunBoth \/ StepBoth

\* source -> build -> file -> run, beside the run of the source itself
SpecBytecode == Init /\ [][NextBytecode]_vars

\* instructions and constants handed to the writer one at a time
Halt0 == Instruction(OpHalt, Nil, 0)
Bytes(n) == [i \in 1..n |-> 97 + (i % 26)]
ArgCases ==
    {Nil, Float(0), Float(1), Float(2), Float(200), IntV(-1), IntV(0), IntV(35),
     IntV(300), IntV(-64), IntV(-65), IntV(MaxInt32), IntV(MinInt32),
     Rat(1, 2), Rat(-3, 4), Str(<<>>), Str(S_len)}
LineCases == {0, 1, 127, 128, 300, 16383, 16384, 32767, 32768, 65535}
InstructionCases ==
    {<<Instruction(op, arg, line), Halt0>> :
         op \in OpConstant..OpHalt, arg \in ArgCases, line \in LineCases}
ConstantCases ==
    {Constant(Float(n), "number") : n \in {-128, -127, -1, 0, 1, 127, 128}}
    \cup {Constant(IntV(n), "number") : n \in {-128, -127, -1, 0, 1, 127, 128}}
    \cup {Constant(Rat(1, 2), "number"), Constant(Rat(-5, 4), "number")}
    \cup {Constant(Str(Bytes(n)), "string") : n \in {0, 1, 255, 256}}
    \cup {Constant(Float(n), "funcptr") : n \in {0, 5, 200}}
    \cup {Constant(Bool(TRUE), "bool"), Constant(Bool(FALSE), "bool"), Constant(Nil, "nil")}
PoolCases == {<<c>> : c \in ConstantCases} \cup {<<c, Constant(Nil, "nil")>> : c \in ConstantCases}

\* a builder holding one of the cases, ready to be saved
InitCodec ==
    /\ phase = "built"
    /\ nodes = <<>>
    /\ ni = 0
    /\ \/ \E is \in InstructionCases :
             b = [NewBuilder EXCEPT !.Instructions = is]
       \/ \E cs \in PoolCases :
             b = [NewBuilder EXCEPT !.Instructions = <<Halt0>>, !.Constants = cs]
    /\ file = <<>>
    /\ loaded = LoadFail("", 0)
    /\ vm = NewVM
    /\ vmF = NewVM

NextCodec == SaveBytecode \/ LoadBytecode

SpecCodec == InitCodec /\ [][NextCodec]_vars

\* ------------------------------------------------------- files on disk
\* Arrays whose file is well formed (the arguments are nil, Go ints, strings
\* and a float64 with a fraction), and what becomes of the file before it is
\* read: it is cut short, or a byte of its header is overwritten.
FileInstructions ==
    <<Instruction(OpConstant, IntV(0), 1), Instruction(OpSetGlobal, Str(N_x), 1),
      Instruction(OpJump, IntV(300), 200), Instruction(OpConstant, Rat(1, 2), 3), Halt0>>
FileConstants ==
    <<Constant(Float(1), "number"), Constant(IntV(5), "number"),
      Constant(Str(N_a), "string"), Constant(Bool(TRUE), "bool"), Constant(Nil, "nil"),
      Constant(Float(3), "funcptr")>>
FileArrays ==
    {<<<<>>, <<>>>>, <<<<Halt0>>, <<>>>>, <<FileInstructions, <<>>>>,
     <<<<Halt0>>, FileConstants>>, <<FileInstructions, FileConstants>>}

MajorCases == {0, 1, 2, 3, 15}
MinorCases == 0..15
MagicByteCases == {0, 76, 108, 255}

InitFile ==
    /\ phase = "built"
    /\ nodes = <<>>
    /\ ni = 0
    /\ \E a \in FileArrays :
          b = [NewBuilder EXCEPT !.Instructions = a[1], !.Constants = a[2]]
    /\ file = <<>>
    /\ loaded = LoadFail("", 0)
    /\ vm = NewVM
    /\ vmF = NewVM

Altered(bytes) ==
    /\ bytes # file
    /\ file' = bytes
    /\ phase' = "altered"
    /\ UNCHANGED <<nodes, ni, b, loaded, vm, vmF>>

\* the file loses its tail
Truncate == phase = "saved" /\ \E n \in 0..(Len(file) - 1) : Altered(SubSeq(file, 1, n))

\* the version byte is another one
SetVersion ==
    /\ phase = "saved"
    /\ \E major \in MajorCases, minor \in MinorCases :
          Altered([file EXCEPT ![5] = major * 16 + minor])

\* one of the four magic bytes is another one
SetMagic ==
    /\ phase = "saved"
    /\ \E i \in 1..4, c \in MagicByteCases : Altered([file EXCEPT ![i] = c])

NextFile == SaveBytecode \/ Truncate \/ SetVersion \/ SetMagic \/ LoadBytecode

SpecFile == InitFile /\ [][NextFile]_vars

\* ------------------------------------------------- operands of every kind
\* A VM whose arrays vm.loadBytecode set from a file: the pool holds every
\* kind of constant the reader produces (nil, float64, the Go int of the
\* small-int form, bool, string, funcptr).
OperandPool ==
    <<Constant(Nil, "nil"), Constant(Float(0), "number"), Constant(Float(1), "number"),
      Constant(Rat(1, 2), "number"), Constant(IntV(0), "number"),
      Constant(IntV(1), "number"), Constant(Bool(FALSE), "bool"),
      Constant(Bool(TRUE), "bool"), Constant(Str(<<>>), "string"),
      Constant(Str(N_a), "string"), Constant(Float(0), "funcptr"),
      Constant(Float(2), "number"), Constant(Float(1), "funcptr")>>

\* the instruction that pushes one operand: a constant, an empty array, an
\* empty table, a function object
PushCases ==
    {Instruction(OpConstant, Float(k), 0) : k \in 0..9}
    \cup {Instruction(OpArray, Float(0), 0), Instruction(OpTable, Nil, 0),
          Instruction(OpMakeFunc, Float(10), 0)}

Op0(op) == Instruction(op, Nil, 0)

\* func f(a, b) return a op b end ; f(1, 0.5) ; f(pa, pb) as the emitter lays
\* it out: the one site of op runs first on two float64 and then on pa, pb
ArithOps == {OpAdd, OpSub, OpMul}
SiteTwice(op, pa, pb) ==
    <<Instruction(OpJump, Float(5), 0),
      Instruction(OpGetLocal, Float(0), 0), Instruction(OpGetLocal, Float(1), 0),
      Op0(op), Op0(OpReturn),
      Instruction(OpMakeFunc, Float(12), 0), Instruction(OpSetGlobal, Str(N_f), 0),
      Instruction(OpConstant, Float(2), 0), Instruction(OpConstant, Float(3), 0),
      Instruction(OpConstant, Float(11), 0), Instruction(OpCall, Str(N_f), 0), Op0(OpPop),
      pa, pb,
      Instruction(OpConstant, Float(11), 0), Instruction(OpCall, Str(N_f), 0), Halt0>>

\* arrays whose control flow leaves the array: a ; Pop with no Halt after it,
\* and a Jump to the index after the last instruction or past it
OffTheEnd ==
    {<<pa, Op0(OpPop)>> : pa \in PushCases}
    \cup {<<Instruction(OpJump, Float(n), 0), Halt0>> : n \in {2, 3}}

\* a ; JumpIfFalse over one Halt -- a ; Not ; Not ; JumpIfFalse over one Halt
\* -- a ; b ; CmpEq -- a ; b ; CmpNe
OperandPrograms ==
    {<<pa, Instruction(OpJumpIfFalse, Float(3), 0), Halt0, Halt0>> : pa \in PushCases}
    \cup {<<pa, Op0(OpNot), Op0(OpNot), Instruction(OpJumpIfFalse, Float(5), 0),
            Halt0, Halt0>> : pa \in PushCases}
    \cup {<<pa, pb, Op0(op), Halt0>> :
              pa \in PushCases, pb \in PushCases, op \in {OpCmpEq, OpCmpNe, OpSub, OpMul}}
    \cup {SiteTwice(op, pa, pb) : pa \in PushCases, pb \in PushCases, op \in ArithOps}
    \cup OffTheEnd

InitOperands ==
    /\ phase = "given"
    /\ nodes = <<>>
    /\ ni = 0
    /\ b = NewBuilder
    /\ file = <<>>
    /\ loaded = LoadFail("", 0)
    /\ \E is \in OperandPrograms : vm = WithBytecode(NewVM, is, OperandPool)
    /\ vmF = NewVM

\* run <file.llbytecode>: Run("") on the VM holding the arrays it was given
RunGiven ==
    /\ phase = "given"
    /\ vm' = StartRun(vm)
    /\ phase' = "run"
    /\ UNCHANGED <<nodes, ni, b, file, loaded, vmF>>

NextOperands ==
    \/ RunGiven \/ ExecConstant \/ ExecArray \/ ExecTable \/ ExecMakeFunc
    \/ ExecNot \/ ExecJumpIfFalse \/ ExecCmpEq \/ ExecCmpNe \/ ExecHalt
    \/ ExecAdd \/ ExecSub \/ ExecMul \/ ExecJump \/ ExecGetLocal \/ ExecSetGlobal
    \/ ExecCall \/ ExecReturn \/ ExecPop \/ ExecOutside

SpecOperands == InitOperands /\ [][NextOperands]_vars

\* ------------------------------------------------------------- properties
\* what one of the two VMs shows of a run: the live stack, the globals, the
\* heap they point into, the lines print wrote, and how the run stands
Observable(m) ==
    [stack |-> SubSeq(m.Stack, 1, IF m.Sp > 0 THEN m.Sp ELSE 0), sp |-> m.Sp,
     globals |-> m.Globals, heap |-> m.Heap, out |-> m.Out,
     status |-> m.status, err |-> m.err]

\* C1: for every program the emitter produces, the arrays read back from the
\* written file execute as the emitter's own arrays do: the load succeeds, and
\* at every step of the two runs the stack, the globals, the output of the
\* builtins and the outcome are the same.
C1_FileRunsAsSource ==
    /\ phase # "loadfail"
    /\ phase = "lockstep" => Observable(vmF) = Observable(vm)

\* an argument as the reader hands it back: Go ints come back as float64
ArgRead(arg) == IF arg.t = "int" THEN Float(arg.n) ELSE arg
InstructionRead(inst) == Instruction(inst.Op, ArgRead(inst.Arg), inst.Line)

\* C2: decoding the bytes of an encoded instruction gives back its opcode,
\* line and argument value, and consumes exactly the bytes written, so that
\* the instruction after it is decoded from the right offset.
C2_InstructionRoundTrip ==
    (phase \in {"loaded", "loadfail"} /\ b.Constants = <<>>) =>
        /\ loaded.err = ""
        /\ loaded.pos = Len(file)
        /\ loaded.Instructions = [i \in 1..Len(b.Instructions) |->
                                      InstructionRead(b.Instructions[i])]

\* C3: reading back a written constant gives the same type and the same value,
\* the integers -128, -127, 127, 128 and the strings of 0, 255 and 256 bytes
\* included.
C3_ConstantRoundTrip ==
    (phase \in {"loaded", "loadfail"} /\ b.Constants # <<>>) =>
        /\ loaded.err = ""
        /\ loaded.Constants = b.Constants

\* the bytes of the file after the counts: the first instruction's line
\* field, and what follows its argument-kind byte up to the closing Halt
HeaderLen == Len(MagicHeader) + 3
LineBytes(f, inst) == SubSeq(f, HeaderLen + 2, HeaderLen + 1 + Len(writeVarUint16(inst.Line % 65536)))
ArgKind(f, inst) == f[HeaderLen + 2 + Len(writeVarUint16(inst.Line % 65536))]
ArgPayload(f, inst) ==
    SubSeq(f, HeaderLen + 3 + Len(writeVarUint16(inst.Line % 65536)), Len(f) - 2)

\* ((v << 1) XOR (v >> 31)) modulo 2^32, for an int32 v
ZigZag(v) ==
    LET u == Int32ToU32(v)
    IN [i \in 1..32 |-> (Shl32(u, 1)[i] + u[32]) % 2]

\* C22: an instruction's line number in 0..65535 is read back from the file
\* as the number that was written.
C22_LineRoundTrip ==
    (phase \in {"loaded", "loadfail"} /\ b.Constants = <<>>
         /\ b.Instructions[1].Arg = Nil) =>
        /\ loaded.err = ""
        /\ loaded.Instructions[1].Line = b.Instructions[1].Line

\* C23: the payload written for a Go int argument v is the varuint of
\* ((v << 1) XOR (v >> 31)) modulo 2^32, and the reader hands v back, at -1,
\* 0, the least and the greatest int32 as everywhere else.
C23_ZigZagRoundTrip ==
    (phase \in {"loaded", "loadfail"} /\ b.Constants = <<>>
         /\ b.Instructions[1].Arg.t = "int") =>
        /\ ArgKind(file, b.Instructions[1]) = ArgTypeInt
        /\ ArgPayload(file, b.Instructions[1]) = writeVarUint(ZigZag(b.Instructions[1].Arg.n))
        /\ loaded.err = ""
        /\ loaded.pos = Len(file)
        /\ loaded.Instructions[1].Arg = Float(b.Instructions[1].Arg.n)

\* the least int32 went through the file and came back
C23_Witness ==
    /\ phase = "loaded"
    /\ b.Instructions[1].Arg = IntV(MinInt32)
    /\ ArgPayload(file, b.Instructions[1]) = <<255, 255, 255, 255, 15>>
    /\ loaded.Instructions[1].Arg = Float(MinInt32)

\* C24: an argument that is a float64 with an integer value is written as
\* kind 1 followed by the zig-zag varuint of the value, the reader takes
\* exactly the bytes written for it, and the value comes back.
C24_IntArgAgrees ==
    (phase \in {"loaded", "loadfail"} /\ b.Constants = <<>>
         /\ FitsInt32(b.Instructions[1].Arg)) =>
        /\ ArgKind(file, b.Instructions[1]) = ArgTypeInt
        /\ ArgPayload(file, b.Instructions[1]) = writeVarUint(ZigZag(b.Instructions[1].Arg.n))
        /\ loaded.err = ""
        /\ loaded.pos = Len(file)
        /\ loaded.Instructions[1].Arg = b.Instructions[1].Arg

\* C25: a call leaves in the caller's frame the index of the instruction
\* after the Call or CallIndirect and the caller's base; no step of the callee
\* alters a frame below the running one; Return removes the callee's frame
\* alone, so the run goes on in the caller right after the call with the
\* caller's base, at every depth of the call stack.
C25_ReturnResumesAfterCall ==
    [][/\ ((Fetches({OpCall, OpCallIndirect}) /\ Len(vm'.CallStack) = Len(vm.CallStack) + 1) =>
               SubSeq(vm'.CallStack, 1, Len(vm.CallStack)) =
                   [vm.CallStack EXCEPT ![Len(vm.CallStack)].Ip = Top(vm).Ip + 1])
       /\ (\A i \in 1..(Len(vm.CallStack) - 1) :
               i <= Len(vm'.CallStack) => vm'.CallStack[i] = vm.CallStack[i])
       /\ ((Fetches({OpReturn}) /\ Len(vm.CallStack) >= 2) =>
               /\ Running(vm')
               /\ vm'.CallStack = SubSeq(vm.CallStack, 1, Len(vm.CallStack) - 1)
               /\ vm'.Instructions[Top(vm').Ip].Op \in {OpCall, OpCallIndirect})
      ]_vars

\* the innermost of three nested calls of the recursive f has returned into
\* the call before it
C25_Witness ==
    /\ nodes = ProgRecur(0) /\ phase = "run" /\ Running(vm)
    /\ Len(vm.CallStack) = MaxLit + 1
    /\ vm.Instructions[vm.last + 1].Op = OpReturn
    /\ vm.Instructions[Top(vm).Ip].Op = OpCall
    /\ Slot(vm, vm.Sp - 1) = Float(MaxLit)

\* the program opens with a function definition: func name(...) ... end, or
\* name = func(...) ... end
DefinitionFirst ==
    /\ Len(nodes) >= 1 /\ ni >= 1
    /\ \/ nodes[1].k = "FuncDef"
       \/ nodes[1].k = "Assignment" /\ nodes[1].Expr.k = "AnonymousFunc"

\* the run has executed nothing after the instruction at index last
NothingRanAfter(m, last) ==
    /\ phase = "run" /\ Len(m.Ran) = Len(m.Instructions)
    /\ \A i \in (last + 2)..Len(m.Ran) : m.Ran[i] = 0

\* C26: the guard Jump of a function definition lands on its MakeFunc, the
\* funcptr constant of that MakeFunc is the index right after the guard Jump,
\* and running the definition executes no instruction of the body: it binds
\* the global of the function's name to a function object with that entry and
\* changes nothing else.
C26_DefinitionSkipsBody ==
    DefinitionFirst =>
        LET target == TruncRat(toFloat64(b.Instructions[1].Arg))
        IN /\ b.Instructions[1].Op = OpJump
           /\ target >= 1 /\ target + 2 <= Len(b.Instructions)
           /\ b.Instructions[target + 1].Op = OpMakeFunc
           /\ b.Constants[TruncRat(b.Instructions[target + 1].Arg) + 1] =
                  Constant(Float(1), "funcptr")
           /\ b.Instructions[target + 2] = Instruction(OpSetGlobal, Str(nodes[1].Name), 0)
           /\ NothingRanAfter(vm, target + 1) =>
                  /\ \A i \in 2..target : vm.Ran[i] = 0
                  /\ Len(vm.CallStack) = 1 /\ Top(vm).Sp = 0
                  /\ vm.Out = <<>> /\ Running(vm)
                  /\ IF vm.Ran[target + 2] = 0
                     THEN vm.Globals = <<>> /\ vm.Sp <= 1
                     ELSE /\ vm.Sp = 0 /\ Top(vm).Ip = target + 2
                          /\ DOMAIN vm.Globals = {nodes[1].Name}
                          /\ vm.Globals[nodes[1].Name] = Ref(1)
                          /\ vm.Heap = <<Map((S_type :> Str(S_function))
                                             @@ (S_entry :> Float(1)))>>

\* func add(a, b) return a + b end has just been defined by the run
C26_Witness ==
    /\ nodes = ProgAdd /\ DefinitionFirst
    /\ NothingRanAfter(vm, TruncRat(toFloat64(b.Instructions[1].Arg)) + 1)
    /\ vm.Ran[TruncRat(toFloat64(b.Instructions[1].Arg)) + 2] = 1
    /\ N_add \in DOMAIN vm.Globals
    /\ IsFunctionObject(vm, vm.Globals[N_add])

\* the arm of an if whose body runs: the first with a truthy condition, or
\* one past the last when no condition is truthy
FirstTruthy(conds) ==
    IF \E i \in 1..Len(conds) : conds[i] # 0
    THEN CHOOSE i \in 1..Len(conds) : conds[i] # 0 /\ \A j \in 1..(i - 1) : conds[j] = 0
    ELSE Len(conds) + 1

\* what x holds once the if of ProgIf(conds, hasElse) is done
BumpedTo(conds, hasElse) ==
    IF FirstTruthy(conds) <= Len(conds) THEN Pow2(FirstTruthy(conds) - 1)
    ELSE IF hasElse THEN Pow2(MaxArms) ELSE 0

\* how often the JumpIfFalse that tests condition k has run
TestRan(m, k) ==
    LET tests == {i \in 1..Len(m.Instructions) : m.Instructions[i].Op = OpJumpIfFalse}
        at == CHOOSE i \in tests : Cardinality({j \in tests : j < i}) = k - 1
    IN m.Ran[at]

\* the if of ProgIf is done: the run stands at the first instruction of s = x
IfDone(m) ==
    /\ Running(m) /\ Len(m.Ran) = Len(m.Instructions)
    /\ Top(m).Ip = Len(m.Instructions) - 3
    /\ m.Ran[Len(m.Instructions) - 2] = 0

\* C27: an if / elseif / else tests its conditions in order up to the first
\* truthy one, runs the body of that arm alone (the else body when none is
\* truthy, nothing when there is no else), tests no condition after a body
\* has run, and goes on at the instruction after the construct with the stack
\* pointer it started with.
C27_IfRunsFirstTruthyArm ==
    \A conds \in CondCases, hasElse \in BOOLEAN :
        (nodes = ProgIf(conds, hasElse) /\ phase = "run"
             /\ Len(vm.Ran) = Len(vm.Instructions)) =>
            /\ \A i \in 1..Len(vm.Ran) : vm.Ran[i] <= 1
            /\ \A k \in 2..Len(conds) : TestRan(vm, k) <= TestRan(vm, k - 1)
            /\ \A k \in 1..Len(conds) : k > FirstTruthy(conds) => TestRan(vm, k) = 0
            /\ N_x \in DOMAIN vm.Globals =>
                   vm.Globals[N_x] \in {Float(0), Float(BumpedTo(conds, hasElse))}
            /\ (Running(vm) /\ Top(vm).Ip > Len(vm.Instructions) - 3) =>
                   vm.Ran[Len(vm.Instructions) - 2] = 1
            /\ IfDone(vm) =>
                   /\ vm.Sp = 0 /\ Len(vm.CallStack) = 1
                   /\ vm.Globals[N_x] = Float(BumpedTo(conds, hasElse))
                   /\ \A k \in 1..Len(conds) :
                          k <= FirstTruthy(conds) => TestRan(vm, k) = 1

\* if 0 then .. elseif 1 then x = x + 2 elseif 1 then .. else .. end is done
C27_Witness ==
    /\ nodes = ProgIf(<<0, 1, 1>>, TRUE) /\ phase = "run"
    /\ IfDone(vm)
    /\ vm.Globals[N_x] = Float(2)
    /\ TestRan(vm, 2) = 1 /\ TestRan(vm, 3) = 0

\* the count operand of the Call about to run, and the count values below it
\* in the order they were pushed
CallCount(m) == TruncRat(toFloat64(Slot(m, m.Sp - 1)))
CallArgs(m) == [i \in 1..CallCount(m) |-> Slot(m, m.Sp - 2 - CallCount(m) + i)]

\* the global named as the builtin about to be called holds a function object
Shadowed(m) ==
    /\ Fetch(m).Arg.s \in DOMAIN m.Globals
    /\ IsFunctionObject(m, m.Globals[Fetch(m).Arg.s])

\* C28: a Call whose name is a registered builtin invokes the builtin with
\* the topmost count stack values in push order, replaces them by its result
\* and pushes no frame, also when the program has bound a function object to
\* a global of that name; the body of such a function never runs.
C28_BuiltinComesFirst ==
    [][/\ ((Fetches({OpCall}) /\ IsBuiltin(Fetch(vm).Arg.s)) =>
               /\ vm'.CallStack = [vm.CallStack EXCEPT ![Len(vm.CallStack)].Ip = @ + 1]
               /\ vm'.Sp = vm.Sp - CallCount(vm)
               /\ Slot(vm', vm'.Sp - 1) =
                      CallBuiltin(vm, Fetch(vm).Arg.s, CallArgs(vm)).res
               /\ vm'.Out = CallBuiltin(vm, Fetch(vm).Arg.s, CallArgs(vm)).vm.Out
               /\ Running(vm'))
       /\ ((nodes \in ProgShadow /\ phase' = "run" /\ vm'.status = "running") =>
               /\ Len(vm'.CallStack) = 1
               /\ vm'.Ran[2] = 0 /\ vm'.Ran[3] = 0)
      ]_vars

\* len has been called on an array of two elements while the global len held
\* the program's function: the result is the builtin's 2, and no frame
C28_Witness ==
    /\ nodes \in ProgShadow /\ phase = "run" /\ Running(vm)
    /\ S_len \in DOMAIN vm.Globals /\ IsFunctionObject(vm, vm.Globals[S_len])
    /\ vm.Instructions[vm.last + 1] = Instruction(OpCall, Str(S_len), 0)
    /\ Len(vm.CallStack) = 1
    /\ vm.Sp = 1 /\ Slot(vm, 0) = Float(2)

\* v.Stack[i] = val inside the slice, t[key] = val inside the map: the heap
\* after SetIndex has acted on the operands table, index, val
Assigned(m, table, index, val) ==
    IF IsSlice(m, table)
    THEN IF IndexOf(index) >= 0 /\ IndexOf(index) < Len(m.Heap[table.ref].elems)
         THEN [m.Heap EXCEPT ![table.ref].elems[IndexOf(index) + 1] = val]
         ELSE m.Heap
    ELSE IF IsMap(m, table)
    THEN [m.Heap EXCEPT ![table.ref].m = (Sprint(m.Heap, index) :> val) @@ @]
    ELSE m.Heap

\* C29: SetIndex takes value, index and container off the stack and puts the
\* container back, whatever the container operand is: the stack pointer goes
\* down by 2 and the container is on top; an array is assigned at an index in
\* range and left alone otherwise, a table is assigned under the index
\* printed as a string.
C29_SetIndexLeavesContainer ==
    [][(Fetches({OpSetIndex}) /\ vm.Sp >= 3) =>
           /\ Running(vm')
           /\ vm'.Sp = vm.Sp - 2
           /\ Slot(vm', vm'.Sp - 1) = Slot(vm, vm.Sp - 3)
           /\ vm'.Heap = Assigned(vm, Slot(vm, vm.Sp - 3), Slot(vm, vm.Sp - 2),
                                  Slot(vm, vm.Sp - 1))
      ]_vars

\* C30: the statement t[i] = v leaves the stack pointer where it was before
\* the statement: at the top level, where statements start with an empty
\* stack, the stack is empty again once its SetIndex has run.
C30_IndexSetKeepsSp ==
    (nodes \in ProgIndexSet /\ phase = "run" /\ Running(vm) /\ vm.Ran[1] = 1
         /\ vm.Instructions[vm.last + 1].Op = OpSetIndex) =>
        vm.Sp = 0

\* the index a Jump or JumpIfFalse transfers to
JumpTarget(inst) == TruncRat(toFloat64(inst.Arg))
IsJump(inst) == inst.Op \in {OpJump, OpJumpIfFalse}

\* C4: once emission is complete every Jump and JumpIfFalse has a target t
\* with 0 <= t <= N, N the number of instructions emitted.
C4_JumpTargetsInRange ==
    phase # "build" =>
        \A i \in 1..Len(b.Instructions) :
            IsJump(b.Instructions[i]) =>
                /\ JumpTarget(b.Instructions[i]) >= 0
                /\ JumpTarget(b.Instructions[i]) <= Len(b.Instructions)

\* the function bodies of the emitted program: from the entry a MakeFunc's
\* funcptr constant names up to the MakeFunc itself
FunctionBodies ==
    {[entry |-> TruncRat(b.Constants[TruncRat(b.Instructions[j].Arg) + 1].Value),
      end |-> j - 1] :
         j \in {k \in 1..Len(b.Instructions) : b.Instructions[k].Op = OpMakeFunc}}

\* where control can be after the instruction at index i
Successors(i) ==
    LET inst == b.Instructions[i + 1]
    IN CASE inst.Op \in {OpReturn, OpHalt} -> {}
         [] inst.Op = OpJump -> {JumpTarget(inst)}
         [] inst.Op = OpJumpIfFalse -> {JumpTarget(inst), i + 1}
         [] OTHER -> {i + 1}

\* the indices control can reach from a body's entry while it stays in the body
RECURSIVE ReachedFrom(_, _, _)
ReachedFrom(body, seen, frontier) ==
    IF frontier = {} THEN seen
    ELSE LET inside == {i \in frontier : i >= body.entry /\ i < body.end}
             next == UNION {Successors(i) : i \in inside}
         IN ReachedFrom(body, seen \cup frontier, next \ (seen \cup frontier))

\* C5: in every function body, control that starts at the entry stays in the
\* body until a Return of the body: it never falls or jumps out to the
\* MakeFunc and the caller's code after it.
C5_BodiesEndInReturn ==
    phase # "build" =>
        \A body \in FunctionBodies :
            \A i \in ReachedFrom(body, {}, {body.entry}) :
                i >= body.entry /\ i < body.end

\* the argument count on top of the stack when a call is fetched
ArgCount(m) == TruncRat(toFloat64(Slot(m, m.Sp - 1)))
\* the stack pointer before the first argument of the call fetched was pushed
SpBeforeArgs(m) ==
    IF Fetch(m).Op = OpCall THEN m.Sp - 1 - ArgCount(m) ELSE m.Sp - 2 - ArgCount(m)
EntersFunction == Len(vm'.CallStack) = Len(vm.CallStack) + 1
ReturnsToCaller ==
    /\ Fetch(vm).Op = OpReturn
    /\ Running(vm')
    /\ Len(vm'.CallStack) = Len(vm.CallStack) - 1

\* C6: a call with C arguments that completes leaves the stack pointer at its
\* value before the first argument was pushed, plus one, with the result on
\* top: a builtin at once, a user function by entering a frame based there
\* and, at its Return, leaving one value (nil if none was left) on that base.
C6_CallLeavesOneResult ==
    [][(phase = "run" /\ CanFetch(vm) /\ vm' # vm) =>
          /\ (Fetch(vm).Op = OpCall /\ IsBuiltin(Fetch(vm).Arg.s) /\ Running(vm')) =>
                 /\ vm'.Sp = SpBeforeArgs(vm) + 1
                 /\ Fetch(vm).Arg.s = S_print => Slot(vm', vm'.Sp - 1) = Nil
                 /\ Fetch(vm).Arg.s = S_len => Slot(vm', vm'.Sp - 1).t = "float"
          /\ (Fetch(vm).Op \in {OpCall, OpCallIndirect} /\ EntersFunction) =>
                 Top(vm').Sp = SpBeforeArgs(vm)
          /\ ReturnsToCaller =>
                 /\ vm'.Sp = Top(vm).Sp + 1
                 /\ Slot(vm', vm'.Sp - 1) =
                        IF vm.Sp > Top(vm).Sp THEN Slot(vm, vm.Sp - 1) ELSE Nil
      ]_vars

\* the opcode of the instruction executed last
LastOp(m) == m.Instructions[m.last + 1].Op

\* add(2, 3) has returned into the top-level frame: its two arguments are
\* replaced by the one result
C6_Witness ==
    /\ phase = "run" /\ nodes = ProgAdd
    /\ vm.last >= 0 /\ LastOp(vm) = OpReturn
    /\ Len(vm.CallStack) = 1
    /\ vm.Sp = 1 /\ Slot(vm, 0) = Float(5)

\* C7: while a function's frame is the active one the stack pointer is never
\* below the frame's base.
C7_NeverBelowFrameBase ==
    (phase = "run" /\ Len(vm.CallStack) >= 2) => vm.Sp >= Top(vm).Sp

\* C8: a call of a user function with C arguments enters a frame whose base is
\* the stack pointer, after the count (and for CallIndirect the callee) is
\* popped, minus C, over the arguments as they were pushed; GetLocal i pushes
\* the slot at base + i, the i-th argument.
C8_FrameBaseUnderArgs ==
    [][(phase = "run" /\ CanFetch(vm) /\ vm' # vm) =>
          /\ (Fetch(vm).Op \in {OpCall, OpCallIndirect} /\ EntersFunction) =>
                 /\ Top(vm').ArgCount = ArgCount(vm)
                 /\ Top(vm').Sp = vm'.Sp - ArgCount(vm)
                 /\ vm'.Sp = IF Fetch(vm).Op = OpCall THEN vm.Sp - 1 ELSE vm.Sp - 2
                 /\ \A i \in 0..(ArgCount(vm) - 1) :
                        Slot(vm', Top(vm').Sp + i) = Slot(vm, SpBeforeArgs(vm) + i)
          /\ (Fetch(vm).Op = OpGetLocal /\ Running(vm')) =>
                 Slot(vm', vm'.Sp - 1) = Slot(vm, Top(vm).Sp + TruncRat(Fetch(vm).Arg))
      ]_vars

\* in f(2, 1), entered by Call or by CallIndirect, the body has pushed its
\* parameters a and b: 2 from slot 0, then 1 from slot 1
C8_Witness ==
    /\ phase = "run"
    /\ Len(vm.CallStack) = 2 /\ Top(vm).ArgCount = 2
    /\ vm.last >= 0 /\ LastOp(vm) = OpGetLocal
    /\ vm.Instructions[vm.last + 1].Arg = Float(1)
    /\ vm.Sp = Top(vm).Sp + 4
    /\ Slot(vm, vm.Sp - 1) = Float(1) /\ Slot(vm, vm.Sp - 2) = Float(2)
    /\ Slot(vm, Top(vm).Sp) = Float(2) /\ Slot(vm, Top(vm).Sp + 1) = Float(1)

\* Run has returned nil
EndedNormally(m) == m.status \in {"halted", "returned"}

Tens(n) == [i \in 1..n |-> NumLit(10 * i)]

\* C10: a for-in loop over an array of n elements runs its body once for each
\* element in order; summing [10, 20, 30] into a global that starts at 0
\* leaves 60 in it.
C10_ForInVisitsEveryElement ==
    \A n \in 0..3 :
        (phase = "run" /\ nodes = ProgForIn(Tens(n)) /\ EndedNormally(vm)) =>
            /\ N_s \in DOMAIN vm.Globals
            /\ vm.Globals[N_s] = Float(5 * n * (n + 1))

\* the divisor Div is about to pop is zero as a float64
DivisorIsZero(m) == m.Sp >= 2 /\ toFloat64(Popped(m, 1)) = Float(0)

\* C11: a Div whose divisor is zero makes Run return the error "div by
\* zero": the two operands are popped, no quotient is pushed, nothing is
\* printed, and no instruction is executed after it; print(1/0) ends with
\* that error and no output line.
C11_DivByZeroEndsRun ==
    /\ [][/\ (Fetches({OpDiv}) /\ DivisorIsZero(vm)) =>
                  (/\ vm'.status = "error" /\ vm'.err = "div by zero"
                   /\ vm'.Sp = vm.Sp - 2
                   /\ vm'.Out = vm.Out
                   /\ vm'.CallStack = Fetched(vm).CallStack)
           /\ (vm.status = "error" => vm' = vm)]_vars
    /\ [](nodes = ProgDiv /\ phase = "run" /\ ~Running(vm) =>
             vm.status = "error" /\ vm.err = "div by zero" /\ vm.Out = <<>>)

C11_Witness ==
    /\ nodes = ProgDiv
    /\ vm.status = "error" /\ vm.err = "div by zero"
    /\ LastOp(vm) = OpDiv
    /\ vm.Out = <<>>
\* the opcodes whose closure calls v.pop(), and Pop itself
PoppingOps ==
    {OpCmpEq, OpCmpNe, OpCmpLt, OpCmpLte, OpCmpGt, OpCmpGte, OpAdd, OpSub, OpMul,
     OpDiv, OpNot, OpSetGlobal, OpSetLocal, OpGetIndex, OpSetIndex, OpCall,
     OpCallIndirect, OpJumpIfFalse, OpPop}

\* the run has been ended by a stack underflow
EndedByUnderflow(m) == m.status \in {"panic", "error"} /\ m.err = "Stack Underflow"

\* C12: an instruction that pops, Pop included, executed with an empty
\* evaluation stack (sp = 0) ends the run with a stack-underflow error; the
\* run does not continue.
C12_PopOnEmptyStackEndsRun ==
    [][(Fetches(PoppingOps) /\ vm.Sp = 0) => EndedByUnderflow(vm')]_vars
\* CallIndirect is about to pop a float64 count and then a callee
CallsIndirect(m) == m.Sp >= 2 /\ Popped(m, 1).t = "float"

\* the callee is a function object that MakeFunc created
MadeByMakeFunc(m, val) == val.t = "ref" /\ val.ref \in m.Funcs

\* C13: CallIndirect on a callee that is not a function object created by
\* MakeFunc (a number, string, nil, array or user table, whatever its keys)
\* makes Run return the error for calling a non-function; no frame is pushed.
C13_OnlyFunctionObjectsAreCalled ==
    [][(Fetches({OpCallIndirect}) /\ CallsIndirect(vm)
        /\ ~MadeByMakeFunc(vm, Popped(vm, 2))) =>
           (/\ vm'.status = "error" /\ vm'.err = "cannot call non-function"
            /\ vm'.CallStack = Fetched(vm).CallStack)]_vars
\* Call is about to pop its count
CallsByName(m) == m.Sp >= 1

\* the name is bound, in the globals, to a function object MakeFunc created
BoundToFunction(m, name) ==
    name \in DOMAIN m.Globals /\ MadeByMakeFunc(m, m.Globals[name])

\* C14: Call name, with name neither a builtin nor a global bound to a
\* function object, makes Run return an error; no frame is pushed and no
\* instruction is executed after it.
C14_UnknownNameIsAnError ==
    [][/\ (Fetches({OpCall}) /\ CallsByName(vm) /\ ~IsBuiltin(Fetch(vm).Arg.s)
           /\ ~BoundToFunction(vm, Fetch(vm).Arg.s)) =>
              (/\ vm'.status = "error" /\ vm'.err = "function not found"
               /\ vm'.CallStack = Fetched(vm).CallStack)
       /\ (vm.status = "error" => vm' = vm)]_vars
\* nil, the number 0 as a float64 or as a Go int, false, the empty string
IsFalsyValue(val) ==
    val = Nil \/ val = Float(0) \/ val = IntV(0) \/ val = Bool(FALSE) \/ val = Str(<<>>)

\* C15: JumpIfFalse goes to its target, and Not pushes 1.0, exactly when the
\* popped value is nil, the number 0 in either representation, false or the
\* empty string; otherwise JumpIfFalse falls through and Not pushes 0.0.
C15_FalsyValues ==
    [][/\ (Fetches({OpJumpIfFalse}) /\ vm.Sp >= 1) =>
              (/\ Running(vm') /\ vm'.Sp = vm.Sp - 1
               /\ Top(vm').Ip = IF IsFalsyValue(Popped(vm, 1))
                                THEN JumpTarget(Fetch(vm)) ELSE Top(vm).Ip + 1)
       /\ (Fetches({OpNot}) /\ vm.Sp >= 1) =>
              (/\ Running(vm') /\ vm'.Sp = vm.Sp
               /\ Popped(vm', 1) = Num(IsFalsyValue(Popped(vm, 1))))]_vars
\* the value an instruction left on top of the stack
Pushed(m) == Popped(m, 1)

\* C16: on every pair of operands CmpEq and CmpNe each push exactly one
\* number, and CmpEq pushes 1.0 if and only if CmpNe pushes 0.0.
C16_EqAndNeAreComplementary ==
    [][(Fetches({OpCmpEq, OpCmpNe}) /\ vm.Sp >= 2) =>
           (/\ Running(vm') /\ vm'.Sp = vm.Sp - 1
            /\ Pushed(vm') \in {Float(0), Float(1)}
            /\ Pushed(OpCmpEqDo(Fetched(vm), Fetch(vm))) = Float(1)
                   <=> Pushed(OpCmpNeDo(Fetched(vm), Fetch(vm))) = Float(0))]_vars
\* truthiness as the VM tests it in JumpIfFalse and Not (the Go int 0 is
\* truthy to it, float64 0 is not)
Truthy(val) == ~Falsy(val)

\* the operand the first instruction of the program pushes
FirstOperand(m) ==
    IF m.Instructions[1].Op = OpConstant
    THEN m.Constants[TruncRat(m.Instructions[1].Arg) + 1].Value
    ELSE Ref(1)

\* the program is a ; Not ; Not ; JumpIfFalse and the jump has been executed
DoubleNotTested(m) ==
    /\ Len(m.Instructions) >= 4
    /\ m.Instructions[2].Op = OpNot /\ m.Instructions[3].Op = OpNot
    /\ m.Instructions[4].Op = OpJumpIfFalse
    /\ m.last = 3

WhileTurns == Lits \cup {3}

\* in such a program: the index of the loop's JumpIfFalse and of its
\* backward Jump
LoopTest(m) ==
    CHOOSE j \in 0..(Len(m.Instructions) - 1) : m.Instructions[j + 1].Op = OpJumpIfFalse
LoopJump(m) ==
    CHOOSE j \in 0..(Len(m.Instructions) - 1) : m.Instructions[j + 1].Op = OpJump

\* how often the run has executed the instruction at index j
Executed(m, j) == m.Ran[j + 1]

\* C18: a while loop whose condition is truthy k times and then falsy
\* executes its body k times and its JumpIfFalse k + 1 times, and then goes
\* on at the instruction directly after the backward Jump; with k = 3 that
\* is 4 executions of JumpIfFalse and a final i of 3.
C18_WhileRunsBodyKTimes ==
    /\ [](\A k \in WhileTurns :
             (nodes = ProgWhile(k) /\ phase = "run" /\ ~Running(vm)) =>
                 (/\ vm.status = "halted"
                  /\ JumpTarget(vm.Instructions[LoopJump(vm) + 1]) < LoopTest(vm)
                  /\ Executed(vm, LoopTest(vm)) = k + 1
                  /\ \A j \in (LoopTest(vm) + 1)..LoopJump(vm) : Executed(vm, j) = k
                  /\ Executed(vm, LoopJump(vm) + 1) = 1
                  /\ vm.Globals[N_i] = Float(k)))
    /\ [][(/\ \E k \in WhileTurns : nodes = ProgWhile(k)
           /\ Fetches({OpJumpIfFalse}) /\ vm.Sp >= 1) =>
              (Top(vm').Ip = IF Falsy(Popped(vm, 1)) THEN LoopJump(vm) + 1
                             ELSE LoopTest(vm) + 1)]_vars

C18_Witness ==
    /\ nodes = ProgWhile(3)
    /\ vm.status = "halted"
    /\ Executed(vm, LoopTest(vm)) = 4
    /\ vm.Globals[N_i] = Float(3)
\* Run has built its top-level frame and executed nothing yet
AtStartOfRun(m) == Running(m) /\ \A i \in 1..Len(m.Ran) : m.Ran[i] = 0

\* C19: at the start of every Run on a VM the evaluation stack is empty
\* (sp = 0), the call stack holds nothing of an earlier Run and the globals
\* map is empty, whether the earlier Run ended on Halt or with an error.
C19_RunStartsClean ==
    (phase \in {"run", "rerun"} /\ AtStartOfRun(vm)) =>
        /\ vm.Sp = 0
        /\ vm.CallStack = <<Frame(0, 0, 0)>>
        /\ vm.Globals = <<>>
\* the file the writer made of the arrays
Written == WriteBytecode(b.Instructions, b.Constants)

\* the load failed and handed over no arrays
LoadFailed ==
    /\ phase = "loadfail"
    /\ loaded.err # "" /\ loaded.Instructions = <<>> /\ loaded.Constants = <<>>
    /\ vmF.Instructions = <<>> /\ vmF.Constants = <<>>

\* the load gave the arrays of the file
LoadSucceeded ==
    /\ phase = "loaded"
    /\ loaded.err = ""
    /\ loaded.Instructions = [i \in 1..Len(b.Instructions) |->
                                  InstructionRead(b.Instructions[i])]
    /\ loaded.Constants = b.Constants
    /\ vmF.Instructions = loaded.Instructions /\ vmF.Constants = loaded.Constants

\* C20: ReadBytecode fails, returning no arrays, when the first four bytes
\* are not LLBC, when the high nibble of the version byte is not 2, and when
\* the input ends before everything declared has been read; a well-formed
\* file of major version 2 loads whatever its minor nibble is.
C20_HeaderGatesLoading ==
    phase \in {"loaded", "loadfail"} =>
        /\ (Len(file) < 4 \/ SubSeq(file, 1, 4) # MagicHeader) => LoadFailed
        /\ (Len(file) >= 5 /\ file[5] \div 16 # VersionMajor) => LoadFailed
        /\ (Len(file) < Len(Written) /\ file = SubSeq(Written, 1, Len(file))) =>
               LoadFailed
        /\ (/\ Len(file) = Len(Written) /\ file[5] \div 16 = VersionMajor
            /\ \A i \in 1..Len(file) : i # 5 => file[i] = Written[i]) => LoadSucceeded

C20_Witness ==
    /\ LoadSucceeded
    /\ file[5] = VersionMajor * 16 + 9
    /\ b.Instructions = FileInstructions /\ b.Constants = FileConstants
\* the index the loop's JumpIfFalse leaves the loop to
LoopExit(m) == JumpTarget(m.Instructions[LoopTest(m) + 1])

\* the c-style loop of f, entered with the caller's operand 1 on the stack,
\* has just been left
LoopLeft(m) ==
    /\ Running(m) /\ Len(m.CallStack) = 2
    /\ m.last = LoopTest(m) /\ Top(m).Ip = LoopExit(m)

\* C21: the code of a c-style for loop leaves the stack pointer where it
\* was before the loop, whatever the stack held and however many times the
\* loop ran, and its init and update code remove or overwrite no value that
\* was on the stack before.
C21_ForLoopKeepsStack ==
    \A k \in Lits :
        (nodes = ProgLoopCall(k) /\ phase = "run" /\ LoopLeft(vm)) =>
            /\ vm.Sp = Top(vm).Sp
            /\ vm.Sp = 1 /\ Slot(vm, 0) = Float(1)

\* the for-in loop of ProgForIn, at the top level, has just been left
ForInLeft(m) ==
    /\ Running(m) /\ Len(m.CallStack) = 1
    /\ m.last = LoopTest(m) /\ Top(m).Ip = LoopExit(m)

\* C31: the code of a for-in loop leaves the stack pointer where it was
\* before the loop, however many elements the collection has: at the top
\* level, after s = 0, the stack is empty again when the loop is left.
C31_ForInKeepsStack ==
    \A n \in 0..3 :
        (nodes = ProgForIn(Tens(n)) /\ phase = "run" /\ ForInLeft(vm)) => vm.Sp = 0

\* ------------------------------------------------------------- scopes
\* The emitter's scope chain on its own: function definitions are entered
\* and left, and names are defined in the current scope. nodes holds the
\* definitions being emitted, the innermost last.
MaxScopes == 3
MaxLocals == 3
ParamCases == {<<>>, <<N_a>>, <<N_a, N_b>>, <<N_a, N_a>>}
NameCases == {N_x}

InitScope ==
    /\ phase = "scope"
    /\ nodes = <<>>
    /\ ni = 0
    /\ b = NewBuilder
    /\ file = <<>>
    /\ loaded = LoadFail("", 0)
    /\ vm = NewVM
    /\ vmF = NewVM

\* FuncDefNode.Emit up to the body: a fresh function scope with the parameters
EnterFunction ==
    /\ phase = "scope"
    /\ Len(b.SymbolTable) < MaxScopes
    /\ \E params \in ParamCases :
          /\ nodes' = Append(nodes, FuncDefNode(N_f, params, <<>>))
          /\ b' = [b EXCEPT !.SymbolTable =
                       Append(@, DefineParams(NewSymbolTable(TRUE), params))]
    /\ UNCHANGED <<phase, ni, file, loaded, vm, vmF>>

\* b.SymbolTable.Define(name, isLocal) in the current scope
DefineName ==
    /\ phase = "scope"
    /\ b.SymbolTable[Len(b.SymbolTable)].NextLocal < MaxLocals
    /\ \E name \in NameCases, isLocal \in BOOLEAN :
          b' = [b EXCEPT !.SymbolTable = DefineIn(@, name, isLocal).chain]
    /\ UNCHANGED <<phase, nodes, ni, file, loaded, vm, vmF>>

\* FuncDefNode.Emit after the body: b.SymbolTable = prevSym
LeaveFunction ==
    /\ phase = "scope"
    /\ Len(b.SymbolTable) > 1
    /\ nodes' = SubSeq(nodes, 1, Len(nodes) - 1)
    /\ b' = [b EXCEPT !.SymbolTable = SubSeq(@, 1, Len(@) - 1)]
    /\ UNCHANGED <<phase, ni, file, loaded, vm, vmF>>

NextScope == EnterFunction \/ DefineName \/ LeaveFunction

SpecScope == InitScope /\ [][NextScope]_vars

\* the indices a scope has handed out, the earliest first
SlotsOf(scope) == [i \in 1..Len(scope.Locals) |-> scope.Locals[Len(scope.Locals) - i + 1][2]]

\* C32: in every function scope the parameters hold the slots 0..N-1 in the
\* order they were declared and every later definition holds the next index,
\* so the indices handed out are exactly 0, 1, ..., k-1; a function entered
\* after another one was left starts again at 0.
C32_SlotsAreContiguous ==
    \A j \in 2..Len(b.SymbolTable) :
        LET scope == b.SymbolTable[j]
            params == nodes[j - 1].Params
        IN /\ scope.IsFunc
           /\ SlotsOf(scope) = [i \in 1..scope.NextLocal |-> i - 1]
           /\ Len(scope.Locals) >= Len(params)
           /\ \A i \in 1..Len(params) :
                  scope.Locals[Len(scope.Locals) - i + 1] = <<params[i], i - 1>>

\* f(a, b) was emitted and left; the function entered after it holds its one
\* parameter in slot 0 and a later local in slot 1
C32_Witness ==
    /\ phase = "scope" /\ Len(b.SymbolTable) = 2
    /\ nodes = <<FuncDefNode(N_f, <<N_a>>, <<>>)>>
    /\ b.SymbolTable[2].Locals = <<<<N_x, 1>>, <<N_a, 0>>>>
    /\ b.SymbolTable[2].NextLocal = 2

\* float64 of an operand that is a number, 0 of any other operand
AsNumber(v) == IF IsNum(v) THEN toFloat64(v) ELSE Float(0)

\* C33: Sub and Mul on two operands of any kinds end with no error: the two
\* operands are popped and one value is pushed, the difference or product of
\* the operand pushed first and the operand pushed second, an operand that
\* is not a number counting as 0.
C33_SubMulCoerceToZero ==
    [][(Fetches({OpSub, OpMul}) /\ vm.Sp >= 2) =>
           /\ Running(vm')
           /\ vm'.Sp = vm.Sp - 1
           /\ Slot(vm', vm'.Sp - 1) =
                  IF Fetch(vm).Op = OpSub
                  THEN RatSub(AsNumber(Slot(vm, vm.Sp - 2)), AsNumber(Slot(vm, vm.Sp - 1)))
                  ELSE RatMul(AsNumber(Slot(vm, vm.Sp - 2)), AsNumber(Slot(vm, vm.Sp - 1)))
      ]_vars

\* the string "a" minus the Go int 1 has given -1
C33_Witness ==
    /\ phase = "run" /\ Running(vm) /\ vm.last = 2
    /\ vm.Instructions[1] = Instruction(OpConstant, Float(9), 0)
    /\ vm.Instructions[2] = Instruction(OpConstant, Float(5), 0)
    /\ vm.Instructions[3] = Op0(OpSub)
    /\ vm.Sp = 1 /\ Slot(vm, 0) = Float(-1)

\* the closure of the site about to run has installed its float fast path
SiteIsCached(m) == Top(m).Ip \in m.Cache

\* the name adaptOp's handlers go by, for the opcode about to run
ArithTag(m) ==
    CASE Fetch(m).Op = OpAdd -> "add" [] Fetch(m).Op = OpSub -> "sub" [] OTHER -> "mul"

\* C39: once an Add, Sub or Mul site has run on two float64 operands, every
\* later execution of the site pushes what the generic handler alone gives
\* for the two operands at hand, whatever their kinds.
C39_FastPathAgreesWithGeneric ==
    [][(Fetches(ArithOps) /\ SiteIsCached(vm) /\ vm.Sp >= 2) =>
           /\ Running(vm')
           /\ vm'.Sp = vm.Sp - 1
           /\ Slot(vm', vm'.Sp - 1) =
                  Handle(ArithTag(vm), vm, Slot(vm, vm.Sp - 2), Slot(vm, vm.Sp - 1))
      ]_vars

\* the site of a + b in f ran on 1 and 0.5 and then on "a" and the Go int 1:
\* the second call has pushed the string "a1"
C39_Witness ==
    /\ phase = "run" /\ Running(vm) /\ vm.last = 3
    /\ vm.Instructions[4] = Op0(OpAdd) /\ 3 \in vm.Cache /\ vm.Ran[4] = 2
    /\ vm.Instructions[13] = Instruction(OpConstant, Float(9), 0)
    /\ vm.Instructions[14] = Instruction(OpConstant, Float(5), 0)
    /\ Slot(vm, vm.Sp - 1) = Str(N_a \o <<49>>)

\* the slot of the GetLocal about to run, as the record of stored locals
\* names it
LocalRead(m) == <<Len(m.CallStack), TruncRat(Fetch(m).Arg)>>

\* C34: a GetLocal i pushes the value the latest SetLocal i of the same frame
\* has stored, whatever was pushed, popped or called in between: nothing
\* but a SetLocal i alters a local slot that has been written.
C34_LocalsKeepTheirValue ==
    [][(Fetches({OpGetLocal}) /\ LocalRead(vm) \in DOMAIN vm.Stored /\ Running(vm')) =>
           Slot(vm', vm'.Sp - 1) = vm.Stored[LocalRead(vm)]
      ]_vars
\* the builder with no local bound in any scope it has entered so far
OwnScopeOnly(bb) ==
    [bb EXCEPT !.SymbolTable = [i \in DOMAIN bb.SymbolTable |->
                                    [bb.SymbolTable[i] EXCEPT !.Locals = <<>>]]]

\* C35: the code emitted for a function definition is the code emitted when
\* the enclosing scopes bind no local at all: every GetLocal and SetLocal of
\* the body uses a slot of the function's own scope, and a name that is local
\* only in an enclosing scope is compiled to a global access
C35_FunctionUsesOwnSlots ==
    [][(phase = "build" /\ ni < Len(nodes) /\ nodes[ni + 1].k = "FuncDef") =>
           b'.Instructions = EmitNode(nodes[ni + 1], OwnScopeOnly(b)).Instructions
      ]_vars

\* C36: when the instruction pointer of the active frame is at or past the
\* end of the instruction array, the next thing Run does is to return: the
\* run does not stay in its loop
C36_RunEndsPastTheEnd ==
    [][(Running(vm) /\ Len(vm.CallStack) > 0 /\ Top(vm).Ip >= Len(vm.Instructions)) =>
           vm'.status = "returned"
      ]_vars

\* a Call or CallIndirect is fetched and the step pushes a frame
Dispatched ==
    /\ Fetches({OpCall, OpCallIndirect})
    /\ Running(vm')
    /\ Len(vm'.CallStack) = Len(vm.CallStack) + 1

\* the function object the fetched call dispatches to, and the number of
\* values the call pops
CalleeOf(m) == IF Fetch(m).Op = OpCall THEN m.Globals[Fetch(m).Arg.s] ELSE Slot(m, m.Sp - 2)
CallPops(m) == IF Fetch(m).Op = OpCall THEN 1 ELSE 2

\* C37: a Call or CallIndirect that dispatches to a user function pushes
\* exactly one frame, whose ip is the entry of the function object; it pops
\* the argument count (and the callee, for CallIndirect) and nothing else;
\* the stack array, and so the arguments under the new stack pointer, the
\* globals, the heap, the output and every frame below the new one (but for
\* the caller's ip, which Run has advanced) are as they were
C37_DispatchOnlyPushesFrame ==
    [][Dispatched =>
           LET n == Len(vm.CallStack)
               count == Top(vm').ArgCount
           IN /\ Top(vm').Ip = TruncRat(vm.Heap[CalleeOf(vm).ref].m[S_entry])
              /\ SubSeq(vm'.CallStack, 1, n) = [vm.CallStack EXCEPT ![n].Ip = @ + 1]
              /\ vm'.CallStack[n].Sp = vm.CallStack[n].Sp
              /\ count = TruncRat(toFloat64(Slot(vm, vm.Sp - 1)))
              /\ vm'.Sp = vm.Sp - CallPops(vm)
              /\ vm'.Stack = vm.Stack
              /\ \A i \in 1..count :
                     vm'.Sp - i >= 0 => Slot(vm', vm'.Sp - i) = Slot(vm, vm.Sp - CallPops(vm) - i)
              /\ vm'.Globals = vm.Globals
              /\ vm'.Heap = vm.Heap
              /\ vm'.Out = vm.Out
      ]_vars
\* a CallIndirect with one argument has just pushed the frame of a user
\* function, the argument still on the stack
C37_Witness ==
    /\ phase = "run" /\ Running(vm)
    /\ Len(vm.CallStack) = 2
    /\ vm.last >= 0
    /\ vm.Instructions[vm.last + 1].Op = OpCallIndirect
    /\ Top(vm).ArgCount = 1
    /\ Top(vm).Sp = vm.Sp - 1
    /\ vm.Sp >= 1

\* C38: when the load of the file fails, Run returns the error of the load;
\* the instruction array, the constant array, the stack pointer, the stack,
\* the call stack, the globals, the heap and the output are as they were
\* before the call, and no instruction is executed, in the call or after it
C38_FailedLoadLeavesVM ==
    [][/\ (phase = "run" /\ phase' = "rerun" /\ loaded'.err # "") =>
              /\ vm'.status = "error" /\ vm'.err = loaded'.err
              /\ vm'.Instructions = vm.Instructions /\ vm'.Constants = vm.Constants
              /\ vm'.Sp = vm.Sp /\ vm'.Stack = vm.Stack
              /\ vm'.CallStack = vm.CallStack /\ vm'.Globals = vm.Globals
              /\ vm'.Heap = vm.Heap /\ vm'.Out = vm.Out
              /\ vm'.Ran = vm.Ran /\ vm'.last = vm.last
       /\ ((phase = "rerun" /\ loaded.err # "") => vm' = vm)
      ]_vars
\* Run has failed to load a file on a VM that holds the arrays, a global and
\* a stack value of the program it ran before
C38_Witness ==
    /\ phase = "rerun" /\ loaded.err # ""
    /\ vm.status = "error" /\ vm.err = loaded.err
    /\ vm.Instructions = b.Instructions /\ vm.Instructions # <<>>
    /\ vm.Globals # <<>> /\ vm.Sp > 0

====
